---------------------------- MODULE Spec2Model ----------------------------
(***************************************************************************)
(* A model of src/server.js, the DoseEdge analytics server: the ingest     *)
(* handlers that fold spreadsheet rows into keyed records, the upsert into *)
(* the in-memory collections, the rewrite of the persisted documents, the  *)
(* bulk clear and the windowed read endpoints.                             *)
(*                                                                         *)
(* Dates are day numbers since the Unix epoch and times are ticks, with    *)
(* TicksPerDay ticks to a day (tick 0 of a day is UTC midnight).  A        *)
(* spreadsheet cell is [t, v]: t = "empty" (undefined or ""), "num" (the   *)
(* number v) or "str" (a non-numeric string, named by v).                  *)
(***************************************************************************)
EXTENDS Integers, Sequences, FiniteSets, TLC

VARIABLES
    now,             \* Date.now(), in ticks
    nreq,            \* number of requests handled so far
    nextId,          \* number of identifiers generateId() has handed out
    uploads,         \* the files present in ./uploads/
    productionData,  \* in-memory collections (src/server.js:41-48)
    turnaroundData,
    bypassData,
    usageData,
    productUsage,
    productWastage,
    detailedWastage,
    stockDoses,
    disk,            \* the persisted JSON documents under ./data
    last,            \* the last request and its response
    inflight         \* the uploads multer is still storing

vars == <<now, nreq, nextId, uploads, productionData, turnaroundData,
          bypassData, usageData, productUsage, productWastage,
          detailedWastage, stockDoses, disk, last, inflight>>

-----------------------------------------------------------------------------
(* Bounds of the model. *)

MaxNow == 2          \* the clock stops at this tick
MaxReq == 3          \* at most this many requests are handled
MaxDays == 1         \* the query parameter days ranges over 0..MaxDays
TicksPerDay == 2     \* clock ticks in a day
MaxLimit == 2        \* the query parameter limit ranges over -1..MaxLimit

(* Program constants. *)

EpochOffset == 25569 \* serial date of 1970-01-01
DefaultLimit == 20   \* limit of a top query that names none
DefaultAll == 50     \* limit of /api/stock-doses/all
DefaultByProduct == 25 \* limit of /api/detailed-wastage/by-product

-----------------------------------------------------------------------------
(* Cells and generic helpers. *)

Empty == [t |-> "empty", v |-> 0]
Num(n) == [t |-> "num", v |-> n]
Str(n) == [t |-> "str", v |-> n]

\* JavaScript truthiness of a cell: undefined, "" and 0 are falsy.
Truthy(c) == c.t = "str" \/ (c.t = "num" /\ c.v # 0)

\* parseInt(cell) || 0 and parseFloat(cell) || 0, over integer-valued cells.
ParseNum(c) == IF c.t = "num" THEN c.v ELSE 0

RECURSIVE SumSet(_, _)
SumSet(f, S) ==
    IF S = {} THEN 0
    ELSE LET x == CHOOSE y \in S : TRUE IN f[x] + SumSet(f, S \ {x})

SumFn(f) == SumSet(f, DOMAIN f)

SetMax(S) == CHOOSE x \in S : \A y \in S : y <= x

Today == now \div TicksPerDay

\* Math.floor(serial - 25569) as a day number, then toISOString().split('T')[0];
\* a serial that is not a number gives an Invalid Date and toISOString throws.
excelDateThrows(serial) == serial.t # "num"
excelDateToISO(serial) == serial.v - EpochOffset

\* Array.prototype.findIndex over a key field: 0 stands for -1 (not found).
FindIndexDropped(coll, key, k) == 0
FindIndex(coll, key, k) ==
    IF \E i \in 1..Len(coll) : coll[i][key] = k
    THEN CHOOSE i \in 1..Len(coll) :
            /\ coll[i][key] = k
            /\ \A j \in 1..(i - 1) : coll[j][key] # k
    ELSE 0

\* coll.sort((a, b) => b.date.localeCompare(a.date)): a stable sort, most
\* recent date first.
RECURSIVE InsertDesc(_, _)
InsertDesc(sorted, r) ==
    IF sorted = <<>> THEN <<r>>
    ELSE IF Head(sorted).date >= r.date
         THEN <<Head(sorted)>> \o InsertDesc(Tail(sorted), r)
         ELSE <<r>> \o sorted

SortKept(coll) == coll
RECURSIVE SortByDateDesc(_)
SortByDateDesc(coll) ==
    IF coll = <<>> THEN <<>>
    ELSE InsertDesc(SortByDateDesc(SubSeq(coll, 1, Len(coll) - 1)),
                    coll[Len(coll)])


-----------------------------------------------------------------------------
(* Sheets with a header row and labelled hour columns (production, bypass). *)
(* rawData = XLSX.utils.sheet_to_json(sheet, {header: 1}): hasHeader says   *)
(* whether rawData[0] exists, h0 is its first cell, cols the cells after    *)
(* it; a label [colon, h, m] is the text "h:m" when colon holds and a text  *)
(* without a colon otherwise.  A data row is [key, cells]: cell 0 and the   *)
(* cells under cols.                                                        *)

Label(h, m) == [colon |-> TRUE, h |-> h, m |-> m]
Plain == [colon |-> FALSE, h |-> 0, m |-> 0]

\* if (!headerRow || headerRow[0] !== sentinel) return res.status(400)
SchemaAny(f, sentinel) == TRUE
SchemaOk(f, sentinel) == f.hasHeader /\ f.h0 = sentinel

\* hourMap[i] = parseInt(hourStr.split(':')[0]) for the header cells holding ':'
HourMap(cols) == [i \in {j \in 1..Len(cols) : cols[j].colon} |-> cols[i].h]

\* hourly[hour] = count, in ascending column order: a later column with the
\* same hour overwrites an earlier one.
RowHourly(hm, row) ==
    [h \in {hm[i] : i \in DOMAIN hm} |->
        ParseNum(row.cells[SetMax({i \in DOMAIN hm : hm[i] = h})])]

\* totalDoses += count, once per hour column.
RowTotal(hm, row) == SumFn([i \in DOMAIN hm |-> ParseNum(row.cells[i])])

\* id: existingIdx >= 0 ? coll[existingIdx].id : generateId()
FreshId(coll, idx, nid) == nid
RecordId(coll, idx, nid) == IF idx > 0 THEN coll[idx].id ELSE nid

\* existingIdx >= 0 ? coll[existingIdx] = record : coll.push(record)
UpsertPush(coll, idx, rec) == Append(coll, rec)
UpsertOnly(coll, idx, rec) == <<rec>>
UpsertKeep(coll, idx, rec) == IF idx > 0 THEN coll ELSE Append(coll, rec)
Upsert(coll, idx, rec) ==
    IF idx > 0 THEN [coll EXCEPT ![idx] = rec] ELSE Append(coll, rec)

\* The data-row loop of POST /api/upload/production over rows i..Len(rows); st
\* is [data, nid, added, updated, threw].  An exception leaves the loop with
\* the rows before it already merged into the in-memory collection.
RECURSIVE ProductionRows(_, _, _, _, _)
ProductionRows(st, rows, i, hm, t) ==
    IF i > Len(rows) \/ st.threw THEN st
    ELSE LET row == rows[i] IN
         IF ~Truthy(row.key) THEN ProductionRows(st, rows, i + 1, hm, t)
         ELSE IF excelDateThrows(row.key) THEN [st EXCEPT !.threw = TRUE]
         ELSE LET date == excelDateToISO(row.key)
                  idx == FindIndex(st.data, "date", date)
                  rec == [id |-> RecordId(st.data, idx, st.nid),
                          date |-> date,
                          total_doses |-> RowTotal(hm, row),
                          hourly |-> RowHourly(hm, row),
                          uploaded_at |-> t]
                  st2 == [data |-> Upsert(st.data, idx, rec),
                          nid |-> IF idx > 0 THEN st.nid ELSE st.nid + 1,
                          added |-> IF idx > 0 THEN st.added ELSE st.added + 1,
                          updated |-> IF idx > 0 THEN st.updated + 1 ELSE st.updated,
                          threw |-> FALSE]
              IN ProductionRows(st2, rows, i + 1, hm, t)

\* The data-row loop of POST /api/upload/bypass: the key is cell 0 itself.
RECURSIVE BypassRows(_, _, _, _, _)
BypassRows(st, rows, i, hm, t) ==
    IF i > Len(rows) THEN st
    ELSE LET row == rows[i] IN
         IF ~Truthy(row.key) THEN BypassRows(st, rows, i + 1, hm, t)
         ELSE LET idx == FindIndex(st.data, "location", row.key)
                  rec == [id |-> RecordId(st.data, idx, st.nid),
                          location |-> row.key,
                          total_bypasses |-> RowTotal(hm, row),
                          hourly |-> RowHourly(hm, row),
                          uploaded_at |-> t]
                  st2 == [data |-> Upsert(st.data, idx, rec),
                          nid |-> IF idx > 0 THEN st.nid ELSE st.nid + 1,
                          added |-> IF idx > 0 THEN st.added ELSE st.added + 1,
                          updated |-> IF idx > 0 THEN st.updated + 1 ELSE st.updated,
                          threw |-> FALSE]
              IN BypassRows(st2, rows, i + 1, hm, t)

Start(data, nid) ==
    [data |-> data, nid |-> nid, added |-> 0, updated |-> 0, threw |-> FALSE]

\* What a handler leaves behind: the response status and body, the in-memory
\* collection, the identifiers used, and whether saveData and unlinkSync ran.
Outcome(status, body, data, nid, saved) ==
    [status |-> status, results |-> body, data |-> data, nid |-> nid,
     saved |-> saved]

Counts(st) == [added |-> st.added, updated |-> st.updated]
ErrorBody == [error |-> TRUE]

\* POST /api/upload/production
ProductionHandler(f, data, nid, t) ==
    IF ~f.readable THEN Outcome(500, ErrorBody, data, nid, FALSE)
    ELSE IF ~SchemaOk(f, "EntryDate") THEN Outcome(400, ErrorBody, data, nid, FALSE)
    ELSE LET st == ProductionRows(Start(data, nid), f.rows, 1, HourMap(f.cols), t)
         IN IF st.threw THEN Outcome(500, ErrorBody, st.data, st.nid, FALSE)
            ELSE Outcome(200, Counts(st), SortByDateDesc(st.data), st.nid, TRUE)

\* POST /api/upload/bypass
BypassHandler(f, data, nid, t) ==
    IF ~f.readable THEN Outcome(500, ErrorBody, data, nid, FALSE)
    ELSE IF ~SchemaOk(f, "Location") THEN Outcome(400, ErrorBody, data, nid, FALSE)
    ELSE LET st == BypassRows(Start(data, nid), f.rows, 1, HourMap(f.cols), t)
         IN Outcome(200, Counts(st), st.data, st.nid, TRUE)

-----------------------------------------------------------------------------
(* Sheets with named columns (turnaround, usage).  present is the set of    *)
(* column labels in the header row; a data row is a record of cells by      *)
(* column, and a column that headerRow.indexOf does not find reads as       *)
(* undefined.  In a text column Str(0) is the text of that column's default *)
(* ('Unknown'), and a description Str(k) is a text whose first word is drug *)
(* k (no first word when k = 0).                                            *)

Col(f, row, name) == IF name \in f.present THEN row[name] ELSE Empty

\* cell || default, for a text column
OrDefault(c) == IF Truthy(c) THEN c ELSE Str(0)

\* parseFloat((a / b).toFixed(1)), in tenths, for a >= 0 and b > 0
RoundDown(a, b) == (10 * a) \div b
Round1(a, b) == (20 * a + b) \div (2 * b)

\* m[k].count++ ; m[k].total_time += time, creating m[k] when missing
Bump(m, k, time) ==
    IF k \in DOMAIN m
    THEN [m EXCEPT ![k] = [count |-> @.count + 1,
                           total_time |-> @.total_time + time]]
    ELSE m @@ (k :> [count |-> 1, total_time |-> time])

\* by_workstation and by_drug are object literals, so m[name] also finds
\* what Object.prototype holds: Str(9) is the text 'constructor', for which
\* !m[name] is false, no entry is created and count++ and total_time += land
\* on the inherited function; the map keeps its entries.
Inherited(c) == c = Str(9)
BumpOwn(m, c, k, time) == IF Inherited(c) THEN m ELSE Bump(m, k, time)

\* doseDesc.split(' '): a TypeError when the description cell is a number
DescThrows(desc) == desc.t = "num" /\ desc.v # 0
DrugName(desc) == IF desc.t = "str" THEN desc.v ELSE 0

\* status = row[colIdx.status] || ''; if (status !== 'Sorted') continue:
\* Str(1) is the text 'Sorted' and Empty stands for ''.
OrEmptyText(c) == IF Truthy(c) THEN c ELSE Empty
IsSortedAny(status) == TRUE
IsSorted(status) == status = Str(1)

EmptyBucket ==
    [count |-> 0, total_time |-> 0, by_priority |-> <<>>,
     by_workstation |-> <<>>, by_drug |-> <<>>]

\* The row loop of POST /api/upload/turnaround; acc is [has, b, threw]: has
\* says whether byDate[today] exists and b is that bucket.
RECURSIVE TurnaroundRows(_, _, _)
TurnaroundRows(acc, f, i) ==
    IF i > Len(f.rows) \/ acc.threw THEN acc
    ELSE LET row == f.rows[i] IN
         IF ~Truthy(Col(f, row, "DoseID")) THEN TurnaroundRows(acc, f, i + 1)
         ELSE IF DescThrows(Col(f, row, "DoseDescription"))
         THEN [acc EXCEPT !.threw = TRUE]
         ELSE IF ~IsSorted(OrEmptyText(Col(f, row, "DoseStatus")))
         THEN TurnaroundRows(acc, f, i + 1)
         ELSE LET time == ParseNum(Col(f, row, "Timeline"))
                  priority == ParseNum(Col(f, row, "Priority"))
                  workstation == OrDefault(Col(f, row, "WorkStation"))
                  drug == DrugName(Col(f, row, "DoseDescription"))
                  b == acc.b
                  b2 == [count |-> b.count + 1,
                         total_time |-> b.total_time + time,
                         by_priority |-> Bump(b.by_priority, priority, time),
                         by_workstation |->
                             BumpOwn(b.by_workstation, workstation,
                                     workstation, time),
                         by_drug |-> IF drug # 0
                                     THEN BumpOwn(b.by_drug, Str(drug), drug,
                                                  time)
                                     ELSE b.by_drug]
              IN TurnaroundRows([has |-> TRUE, b |-> b2, threw |-> FALSE],
                                f, i + 1)

\* POST /api/upload/turnaround: every contributing row lands in the bucket of
\* the upload day, new Date().toISOString().split('T')[0].
TurnaroundHandler(f, data, nid, t) ==
    IF ~f.readable \/ ~f.hasHeader THEN Outcome(500, ErrorBody, data, nid, FALSE)
    ELSE LET acc == TurnaroundRows([has |-> FALSE, b |-> EmptyBucket,
                                    threw |-> FALSE], f, 1)
             date == t \div TicksPerDay
             idx == FindIndex(data, "date", date)
             rec == [id |-> RecordId(data, idx, nid),
                     date |-> date,
                     total_doses |-> acc.b.count,
                     avg_turnaround |->
                         IF acc.b.count > 0
                         THEN Round1(acc.b.total_time, acc.b.count) ELSE 0,
                     by_priority |-> acc.b.by_priority,
                     by_workstation |-> acc.b.by_workstation,
                     by_drug |-> acc.b.by_drug,
                     uploaded_at |-> t]
         IN IF acc.threw THEN Outcome(500, ErrorBody, data, nid, FALSE)
            ELSE IF ~acc.has
            THEN Outcome(200, [added |-> 0, updated |-> 0, total_doses |-> 0],
                         SortByDateDesc(data), nid, TRUE)
            ELSE Outcome(200,
                         [added |-> IF idx > 0 THEN 0 ELSE 1,
                          updated |-> IF idx > 0 THEN 1 ELSE 0,
                          total_doses |-> acc.b.count],
                         SortByDateDesc(Upsert(data, idx, rec)),
                         IF idx > 0 THEN nid ELSE nid + 1, TRUE)

\* m[k].used += used ; m[k].waste += waste ; m[k].count++
BumpProduct(m, k, used, waste, ndc) ==
    IF k \in DOMAIN m
    THEN [m EXCEPT ![k] = [used |-> @.used + used, waste |-> @.waste + waste,
                           count |-> @.count + 1, ndc |-> @.ndc]]
    ELSE m @@ (k :> [used |-> used, waste |-> waste, count |-> 1, ndc |-> ndc])

BumpLocation(m, k, used, waste) ==
    IF k \in DOMAIN m
    THEN [m EXCEPT ![k] = [used |-> @.used + used, waste |-> @.waste + waste,
                           count |-> @.count + 1]]
    ELSE m @@ (k :> [used |-> used, waste |-> waste, count |-> 1])

\* location.split('-')[0]: the text Str(10 * u + b) is "u-b" for b > 0 and
\* "u" for b = 0; a TypeError when the location cell is a number.
LocThrows(loc) == loc.t = "num"
LocKey(loc) == Str((loc.v \div 10) * 10)

\* byDate[date] of the usage upload, kept in order of first occurrence
\* (Object.entries of string keys).
BucketIndex(byDate, date) ==
    IF \E i \in 1..Len(byDate) : byDate[i].date = date
    THEN CHOOSE i \in 1..Len(byDate) : byDate[i].date = date
    ELSE 0

\* The row loop of POST /api/upload/usage; acc is [byDate, total_records,
\* total_waste_ml, threw].
RECURSIVE UsageRows(_, _, _)
UsageRows(acc, f, i) ==
    IF i > Len(f.rows) \/ acc.threw THEN acc
    ELSE LET row == f.rows[i]
             product == Col(f, row, "Product Name")
             prep == Col(f, row, "Dose Preparation Time")
         IN
         IF ~Truthy(product) THEN UsageRows(acc, f, i + 1)
         ELSE IF ~Truthy(prep)
         THEN UsageRows([acc EXCEPT !.total_records = @ + 1], f, i + 1)
         ELSE IF excelDateThrows(prep)
                 \/ LocThrows(OrDefault(Col(f, row, "Patient Location")))
         THEN [acc EXCEPT !.threw = TRUE]
         ELSE LET date == excelDateToISO(prep)
                  total == ParseNum(Col(f, row, "Product Total Volume"))
                  waste == ParseNum(Col(f, row, "Product Unused Volume"))
                  used == total - waste
                  ndc == OrDefault(Col(f, row, "Product NDC"))
                  loc == LocKey(OrDefault(Col(f, row, "Patient Location")))
                  k == BucketIndex(acc.byDate, date)
                  old == IF k > 0 THEN acc.byDate[k]
                         ELSE [date |-> date, total_volume |-> 0,
                               used_volume |-> 0, waste_volume |-> 0,
                               product_count |-> 0, by_product |-> <<>>,
                               by_location |-> <<>>]
                  b == [date |-> date,
                        total_volume |-> old.total_volume + total,
                        used_volume |-> old.used_volume + used,
                        waste_volume |-> old.waste_volume + waste,
                        product_count |-> old.product_count + 1,
                        by_product |->
                            BumpProduct(old.by_product, product, used, waste, ndc),
                        by_location |->
                            BumpLocation(old.by_location, loc, used, waste)]
              IN UsageRows([byDate |-> IF k > 0
                                       THEN [acc.byDate EXCEPT ![k] = b]
                                       ELSE Append(acc.byDate, b),
                            total_records |-> acc.total_records + 1,
                            total_waste_ml |-> acc.total_waste_ml + waste,
                            threw |-> FALSE], f, i + 1)

\* Object.entries(byDate).forEach(...) of the usage upload, over buckets
\* i..Len(byDate); st is [data, nid, added, updated, threw].
RECURSIVE UsageMerge(_, _, _, _)
UsageMerge(st, byDate, i, t) ==
    IF i > Len(byDate) THEN st
    ELSE LET b == byDate[i]
             idx == FindIndex(st.data, "date", b.date)
             rec == [id |-> RecordId(st.data, idx, st.nid),
                     date |-> b.date,
                     total_volume |-> b.total_volume,
                     used_volume |-> b.used_volume,
                     waste_volume |-> b.waste_volume,
                     waste_percent |->
                         IF b.total_volume > 0
                         THEN Round1(b.waste_volume * 100, b.total_volume)
                         ELSE 0,
                     product_count |-> b.product_count,
                     by_product |-> b.by_product,
                     by_location |-> b.by_location,
                     uploaded_at |-> t]
         IN UsageMerge([data |-> Upsert(st.data, idx, rec),
                        nid |-> IF idx > 0 THEN st.nid ELSE st.nid + 1,
                        added |-> IF idx > 0 THEN st.added ELSE st.added + 1,
                        updated |-> IF idx > 0 THEN st.updated + 1
                                    ELSE st.updated,
                        threw |-> FALSE], byDate, i + 1, t)

\* POST /api/upload/usage
UsageHandler(f, data, nid, t) ==
    IF ~f.readable \/ ~f.hasHeader THEN Outcome(500, ErrorBody, data, nid, FALSE)
    ELSE LET acc == UsageRows([byDate |-> <<>>, total_records |-> 0,
                               total_waste_ml |-> 0, threw |-> FALSE], f, 1)
             st == UsageMerge(Start(data, nid), acc.byDate, 1, t)
         IN IF acc.threw THEN Outcome(500, ErrorBody, data, nid, FALSE)
            ELSE Outcome(200,
                         [added |-> st.added, updated |-> st.updated,
                          total_records |-> acc.total_records,
                          total_waste_ml |-> acc.total_waste_ml],
                         SortByDateDesc(st.data), st.nid, TRUE)

-----------------------------------------------------------------------------
(* Record-oriented sheets (product usage): sheet_to_json(sheet) gives one   *)
(* object per row, read here after the aliases of each field are resolved.  *)
(* A snapshot document is [has, ...]: has is FALSE while the variable still *)
(* holds the [] that loadData returns for a missing file.                   *)

NoProductUsage ==
    [has |-> FALSE, by_product |-> <<>>, by_location |-> <<>>,
     summary |-> [total_products |-> 0, total_locations |-> 0,
                  total_product_uses |-> 0, total_doses |-> 0],
     uploaded_at |-> 0]

\* m[k] = (m[k] || 0) + n
AddTo(m, k, n) ==
    IF k \in DOMAIN m THEN [m EXCEPT ![k] = @ + n] ELSE m @@ (k :> n)

\* rawData.forEach(row => ...) of POST /api/upload/product-usage; acc is
\* [by_product, by_location, total_product_uses, total_doses].
RECURSIVE ProductUsageRows(_, _, _)
ProductUsageRows(acc, rows, i) ==
    IF i > Len(rows) THEN acc
    ELSE LET row == rows[i]
             name == row.name
             location == OrDefault(row.location)
             productCount == ParseNum(row.productCount)
             doseCount == ParseNum(row.doseCount)
             bp == acc.by_product
             bl == acc.by_location
             p == IF name \in DOMAIN bp THEN bp[name]
                  ELSE [ndc |-> OrDefault(row.ndc), productCount |-> 0,
                        doseCount |-> 0,
                        locations |-> <<>>]
             l == IF location \in DOMAIN bl THEN bl[location]
                  ELSE [productCount |-> 0, doseCount |-> 0, products |-> <<>>]
             p2 == [ndc |-> p.ndc,
                    productCount |-> p.productCount + productCount,
                    doseCount |-> p.doseCount + doseCount,
                    locations |-> AddTo(p.locations, location, productCount)]
             l2 == [productCount |-> l.productCount + productCount,
                    doseCount |-> l.doseCount + doseCount,
                    products |-> AddTo(l.products, name, productCount)]
         IN IF ~Truthy(name) THEN ProductUsageRows(acc, rows, i + 1)
            ELSE ProductUsageRows(
                    [by_product |-> [x \in DOMAIN bp \cup {name} |->
                                        IF x = name THEN p2 ELSE bp[x]],
                     by_location |-> [x \in DOMAIN bl \cup {location} |->
                                        IF x = location THEN l2 ELSE bl[x]],
                     total_product_uses |-> acc.total_product_uses + productCount,
                     total_doses |-> acc.total_doses + doseCount],
                    rows, i + 1)

\* POST /api/upload/product-usage: the document is replaced whole.
ProductUsageHandler(f, data, nid, t) ==
    IF ~f.readable THEN Outcome(500, ErrorBody, data, nid, FALSE)
    ELSE LET acc == ProductUsageRows(
                        [by_product |-> <<>>, by_location |-> <<>>,
                         total_product_uses |-> 0, total_doses |-> 0],
                        f.rows, 1)
             results == [products |-> Cardinality(DOMAIN acc.by_product),
                         locations |-> Cardinality(DOMAIN acc.by_location),
                         total_product_uses |-> acc.total_product_uses,
                         total_doses |-> acc.total_doses]
         IN Outcome(200, results,
                    [has |-> TRUE,
                     by_product |-> acc.by_product,
                     by_location |-> acc.by_location,
                     summary |-> [total_products |-> results.products,
                                  total_locations |-> results.locations,
                                  total_product_uses |-> results.total_product_uses,
                                  total_doses |-> results.total_doses],
                     uploaded_at |-> t],
                    nid, TRUE)

\* products.sort((a, b) => b.waste_ml - a.waste_ml) and the like: a stable
\* sort, largest value of field k first.
RECURSIVE InsertBy(_, _, _)
InsertBy(sorted, r, k) ==
    IF sorted = <<>> THEN <<r>>
    ELSE IF Head(sorted)[k] >= r[k]
         THEN <<Head(sorted)>> \o InsertBy(Tail(sorted), r, k)
         ELSE <<r>> \o sorted

SortDescKept(list, k) == list
RECURSIVE SortDescBy(_, _)
SortDescBy(list, k) ==
    IF list = <<>> THEN <<>>
    ELSE InsertBy(SortDescBy(SubSeq(list, 1, Len(list) - 1), k),
                  list[Len(list)], k)

NoProductWastage ==
    [has |-> FALSE, products |-> <<>>, by_type |-> <<>>,
     summary |-> [total_products |-> 0, total_waste_ml |-> 0,
                  total_waste_dollars |-> 0, total_partial_products |-> 0],
     uploaded_at |-> 0]

\* rawData.forEach(row => ...) of POST /api/upload/product-wastage; acc is
\* [products, by_type, total_waste_ml, total_waste_dollars].
RECURSIVE ProductWastageRows(_, _, _)
ProductWastageRows(acc, rows, i) ==
    IF i > Len(rows) THEN acc
    ELSE LET row == rows[i]
             type == OrDefault(row.type)
             size == ParseNum(row.size)
             partial == ParseNum(row.partialCount)
             wasteML == ParseNum(row.wasteML)
             wasteDollars == ParseNum(row.wasteDollars)
             product == [name |-> row.name, ndc |-> OrDefault(row.ndc),
                         type |-> type,
                         product_size_ml |-> size,
                         product_cost |-> ParseNum(row.cost),
                         partial_count |-> partial,
                         waste_ml |-> wasteML,
                         waste_dollars |-> wasteDollars,
                         waste_percent |->
                             IF size > 0 /\ partial > 0
                             THEN Round1(wasteML * 100, size * partial) ELSE 0]
             bt == acc.by_type
             old == IF type \in DOMAIN bt THEN bt[type]
                    ELSE [count |-> 0, waste_ml |-> 0, waste_dollars |-> 0]
             new == [count |-> old.count + 1,
                     waste_ml |-> old.waste_ml + wasteML,
                     waste_dollars |-> old.waste_dollars + wasteDollars]
         IN IF ~Truthy(row.name) THEN ProductWastageRows(acc, rows, i + 1)
            ELSE ProductWastageRows(
                    [products |-> Append(acc.products, product),
                     by_type |-> [x \in DOMAIN bt \cup {type} |->
                                    IF x = type THEN new ELSE bt[x]],
                     total_waste_ml |-> acc.total_waste_ml + wasteML,
                     total_waste_dollars |->
                         acc.total_waste_dollars + wasteDollars],
                    rows, i + 1)

\* POST /api/upload/product-wastage
ProductWastageHandler(f, data, nid, t) ==
    IF ~f.readable THEN Outcome(500, ErrorBody, data, nid, FALSE)
    ELSE LET acc == ProductWastageRows(
                        [products |-> <<>>, by_type |-> <<>>,
                         total_waste_ml |-> 0, total_waste_dollars |-> 0],
                        f.rows, 1)
             products == SortDescBy(acc.products, "waste_ml")
         IN Outcome(200,
                    [products |-> Len(products),
                     total_waste_ml |-> acc.total_waste_ml,
                     total_waste_dollars |-> acc.total_waste_dollars],
                    [has |-> TRUE,
                     products |-> products,
                     by_type |-> acc.by_type,
                     summary |->
                        [total_products |-> Len(products),
                         total_waste_ml |-> acc.total_waste_ml,
                         total_waste_dollars |-> acc.total_waste_dollars,
                         total_partial_products |->
                            SumFn([j \in 1..Len(products) |->
                                      products[j].partial_count])],
                     uploaded_at |-> t],
                    nid, TRUE)

NoDetailedWastage ==
    [has |-> FALSE, by_date |-> <<>>, by_product |-> <<>>,
     by_location |-> <<>>,
     summary |-> [total_records |-> 0, total_dates |-> 0,
                  total_waste_ml |-> 0, date_range |-> <<>>],
     uploaded_at |-> 0]

\* text.toLowerCase().includes('stock'): the texts Str(v) with v >= 50 are
\* those that hold the word; a TypeError when the cell is a number.
LowerThrows(c) == c.t = "num" /\ c.v # 0
IsStockText(c) == c.t = "str" /\ c.v >= 50

SetMin(S) == CHOOSE x \in S : \A y \in S : x <= y

\* rawData.forEach(row => ...) of POST /api/upload/detailed-wastage; acc is
\* [by_date, by_product, by_location, records, total_waste_ml, threw].
RECURSIVE DetailedWastageRows(_, _, _)
DetailedWastageRows(acc, rows, i) ==
    IF i > Len(rows) \/ acc.threw THEN acc
    ELSE LET row == rows[i]
             location == OrDefault(row.location)
             productName == OrDefault(row.productName)
             total == ParseNum(row.totalVolume)
             waste == ParseNum(row.unusedVolume)
             used == total - waste
             isMultiDose == row.multiDose = Str(1)
             isStock == IsStockText(row.doseDesc) \/ IsStockText(productName)
         IN
         IF ~Truthy(row.prep) THEN DetailedWastageRows(acc, rows, i + 1)
         ELSE IF \/ excelDateThrows(row.prep)
                 \/ Truthy(row.bud) /\ excelDateThrows(row.bud)
                 \/ LowerThrows(row.doseDesc)
                 \/ LowerThrows(row.productName)
                 \/ LocThrows(location)
         THEN [acc EXCEPT !.threw = TRUE]
         ELSE LET date == excelDateToISO(row.prep)
                  loc == LocKey(location)
                  bd == acc.by_date
                  bp == acc.by_product
                  bl == acc.by_location
                  d == IF date \in DOMAIN bd THEN bd[date]
                       ELSE [total_volume |-> 0, used_volume |-> 0,
                             waste_volume |-> 0, product_count |-> 0,
                             multi_dose_count |-> 0, stock_count |-> 0]
                  q == IF productName \in DOMAIN bp THEN bp[productName]
                       ELSE [ndc |-> OrDefault(row.productNDC), total_volume |-> 0,
                             used_volume |-> 0, waste_volume |-> 0,
                             count |-> 0, is_multi_dose |-> isMultiDose,
                             is_stock |-> isStock]
                  l == IF loc \in DOMAIN bl THEN bl[loc]
                       ELSE [total_volume |-> 0, used_volume |-> 0,
                             waste_volume |-> 0, count |-> 0]
                  d2 == [total_volume |-> d.total_volume + total,
                         used_volume |-> d.used_volume + used,
                         waste_volume |-> d.waste_volume + waste,
                         product_count |-> d.product_count + 1,
                         multi_dose_count |->
                             d.multi_dose_count + IF isMultiDose THEN 1 ELSE 0,
                         stock_count |->
                             d.stock_count + IF isStock THEN 1 ELSE 0]
                  q2 == [q EXCEPT !.total_volume = @ + total,
                                  !.used_volume = @ + used,
                                  !.waste_volume = @ + waste,
                                  !.count = @ + 1]
                  l2 == [total_volume |-> l.total_volume + total,
                         used_volume |-> l.used_volume + used,
                         waste_volume |-> l.waste_volume + waste,
                         count |-> l.count + 1]
              IN DetailedWastageRows(
                    [by_date |-> [x \in DOMAIN bd \cup {date} |->
                                    IF x = date THEN d2 ELSE bd[x]],
                     by_product |-> [x \in DOMAIN bp \cup {productName} |->
                                    IF x = productName THEN q2 ELSE bp[x]],
                     by_location |-> [x \in DOMAIN bl \cup {loc} |->
                                    IF x = loc THEN l2 ELSE bl[x]],
                     records |-> acc.records + 1,
                     total_waste_ml |-> acc.total_waste_ml + waste,
                     threw |-> FALSE],
                    rows, i + 1)

\* POST /api/upload/detailed-wastage
DetailedWastageHandler(f, data, nid, t) ==
    IF ~f.readable THEN Outcome(500, ErrorBody, data, nid, FALSE)
    ELSE LET acc == DetailedWastageRows(
                        [by_date |-> <<>>, by_product |-> <<>>,
                         by_location |-> <<>>, records |-> 0,
                         total_waste_ml |-> 0, threw |-> FALSE],
                        f.rows, 1)
             dates == DOMAIN acc.by_date
         IN IF acc.threw THEN Outcome(500, ErrorBody, data, nid, FALSE)
            ELSE Outcome(200,
                    [records |-> acc.records, dates |-> Cardinality(dates),
                     total_waste_ml |-> acc.total_waste_ml],
                    [has |-> TRUE,
                     by_date |-> acc.by_date,
                     by_product |-> acc.by_product,
                     by_location |-> acc.by_location,
                     summary |->
                        [total_records |-> acc.records,
                         total_dates |-> Cardinality(dates),
                         total_waste_ml |-> acc.total_waste_ml,
                         date_range |-> IF dates = {} THEN <<>>
                                        ELSE <<SetMin(dates), SetMax(dates)>>],
                     uploaded_at |-> t],
                    nid, TRUE)

NoStockDoses ==
    [has |-> FALSE, stocks |-> <<>>, dilutions |-> <<>>, all |-> <<>>,
     summary |-> [total_stock_types |-> 0, total_dilution_types |-> 0,
                  total_doses_made |-> 0],
     uploaded_at |-> 0]

\* A dose text Str(3 * k + p) reads "<prefix> drug k, size k": p = 2 for the
\* prefix "DILUTION:", p = 1 for "STOCK:", p = 0 for none.
\* dose.toUpperCase(): a TypeError when the cell is a number.
DoseThrows(dose) == dose.t = "num"
IsDilution(dose) == dose.v % 3 = 2
IsStockDose(dose) == dose.v % 3 = 1
DoseName(dose) == dose.v \div 3

\* rawData.forEach(row => ...) of POST /api/upload/stock-doses; acc is
\* [stocks, dilutions, total_doses, threw].
RECURSIVE StockDosesRows(_, _, _)
StockDosesRows(acc, rows, i) ==
    IF i > Len(rows) \/ acc.threw THEN acc
    ELSE LET row == rows[i]
             dose == row.dose
             total == ParseNum(row.total)
             record == [name |-> DoseName(dose), original |-> dose,
                        total |-> total, size |-> DoseName(dose),
                        type |-> IF IsDilution(dose) THEN "Dilution"
                                 ELSE IF IsStockDose(dose) THEN "Stock"
                                 ELSE "Other"]
         IN IF ~Truthy(dose) THEN StockDosesRows(acc, rows, i + 1)
            ELSE IF DoseThrows(dose) THEN [acc EXCEPT !.threw = TRUE]
            ELSE StockDosesRows(
                    [stocks |-> IF IsDilution(dose) THEN acc.stocks
                                ELSE Append(acc.stocks, record),
                     dilutions |-> IF IsDilution(dose)
                                   THEN Append(acc.dilutions, record)
                                   ELSE acc.dilutions,
                     total_doses |-> acc.total_doses + total,
                     threw |-> FALSE],
                    rows, i + 1)

\* POST /api/upload/stock-doses
StockDosesHandler(f, data, nid, t) ==
    IF ~f.readable THEN Outcome(500, ErrorBody, data, nid, FALSE)
    ELSE LET acc == StockDosesRows(
                        [stocks |-> <<>>, dilutions |-> <<>>,
                         total_doses |-> 0, threw |-> FALSE], f.rows, 1)
             stocks == SortDescBy(acc.stocks, "total")
             dilutions == SortDescBy(acc.dilutions, "total")
         IN IF acc.threw THEN Outcome(500, ErrorBody, data, nid, FALSE)
            ELSE Outcome(200,
                    [stocks |-> Len(stocks), dilutions |-> Len(dilutions),
                     total_doses |-> acc.total_doses],
                    [has |-> TRUE,
                     stocks |-> stocks,
                     dilutions |-> dilutions,
                     all |-> SortDescBy(stocks \o dilutions, "total"),
                     summary |->
                        [total_stock_types |-> Len(stocks),
                         total_dilution_types |-> Len(dilutions),
                         total_doses_made |-> acc.total_doses],
                     uploaded_at |-> t],
                    nid, TRUE)

-----------------------------------------------------------------------------
(* The persisted documents and the upload directory. *)

Absent == [exists |-> FALSE, doc |-> <<>>]

\* saveData(file, data) runs only when the handler reaches it.
SaveAlways(saved, data, old) == [exists |-> TRUE, doc |-> data]
SaveData(saved, data, old) ==
    IF saved THEN [exists |-> TRUE, doc |-> data] ELSE old

\* loadData(file): the parsed document, or [] when the file does not exist;
\* none is what [] stands for in the collection read.
loadData(file, none) == IF file.exists THEN file.doc ELSE none

\* multer names the stored file Date.now() + '-' + originalname (one original
\* name here); fs.unlinkSync(req.file.path) follows saveData.
TmpName == now
UploadsAfter(saved) ==
    IF saved THEN uploads \ {TmpName} ELSE uploads \cup {TmpName}

Request(op, f, out) ==
    [op |-> op, file |-> f, status |-> out.status, results |-> out.results,
     tmp |-> TmpName, at |-> now]

-----------------------------------------------------------------------------
(* The server. *)

history == <<productionData, turnaroundData, bypassData, usageData>>
snapshots == <<productUsage, productWastage, detailedWastage, stockDoses>>

\* pending: the upload requests whose file multer is writing, each [id, op,
\* file, name]; written: for every path under ./uploads/ that a stream was
\* opened on, the files streamed into it; log: the uploads received so far.
NoneInFlight == [pending |-> {}, written |-> <<>>, log |-> <<>>]

Init ==
    /\ now = 0
    /\ nreq = 0
    /\ nextId = 0
    /\ uploads = {}
    /\ productionData = <<>>
    /\ turnaroundData = <<>>
    /\ bypassData = <<>>
    /\ usageData = <<>>
    /\ productUsage = NoProductUsage
    /\ productWastage = NoProductWastage
    /\ detailedWastage = NoDetailedWastage
    /\ stockDoses = NoStockDoses
    /\ disk = [production |-> Absent, turnaround |-> Absent, bypass |-> Absent,
               usage |-> Absent,
               productUsage |-> [exists |-> FALSE, doc |-> NoProductUsage],
               productWastage |-> [exists |-> FALSE, doc |-> NoProductWastage],
               detailedWastage |->
                   [exists |-> FALSE, doc |-> NoDetailedWastage],
               stockDoses |-> [exists |-> FALSE, doc |-> NoStockDoses]]
    /\ last = [op |-> "start", file |-> <<>>, status |-> 200,
               results |-> <<>>, tmp |-> -1, at |-> 0]
    /\ inflight = NoneInFlight

\* Time passes between requests.
Tick ==
    /\ now < MaxNow
    /\ nreq < MaxReq
    /\ now' = now + 1
    /\ UNCHANGED <<inflight, nreq, nextId, uploads, history, snapshots, disk, last>>

\* upload.single('file') stores the file, then the handler runs to its end.
UploadProduction(f) ==
    /\ nreq < MaxReq
    /\ LET out == ProductionHandler(f, productionData, nextId, now) IN
       /\ productionData' = out.data
       /\ nextId' = out.nid
       /\ disk' = [disk EXCEPT !.production = SaveData(out.saved, out.data, @)]
       /\ uploads' = UploadsAfter(out.saved)
       /\ last' = Request("production", f, out)
    /\ nreq' = nreq + 1
    /\ UNCHANGED <<inflight, now, turnaroundData, bypassData, usageData, snapshots>>

UploadTurnaround(f) ==
    /\ nreq < MaxReq
    /\ LET out == TurnaroundHandler(f, turnaroundData, nextId, now) IN
       /\ turnaroundData' = out.data
       /\ nextId' = out.nid
       /\ disk' = [disk EXCEPT !.turnaround = SaveData(out.saved, out.data, @)]
       /\ uploads' = UploadsAfter(out.saved)
       /\ last' = Request("turnaround", f, out)
    /\ nreq' = nreq + 1
    /\ UNCHANGED <<inflight, now, productionData, bypassData, usageData, snapshots>>

UploadBypass(f) ==
    /\ nreq < MaxReq
    /\ LET out == BypassHandler(f, bypassData, nextId, now) IN
       /\ bypassData' = out.data
       /\ nextId' = out.nid
       /\ disk' = [disk EXCEPT !.bypass = SaveData(out.saved, out.data, @)]
       /\ uploads' = UploadsAfter(out.saved)
       /\ last' = Request("bypass", f, out)
    /\ nreq' = nreq + 1
    /\ UNCHANGED <<inflight, now, productionData, turnaroundData, usageData, snapshots>>

UploadUsage(f) ==
    /\ nreq < MaxReq
    /\ LET out == UsageHandler(f, usageData, nextId, now) IN
       /\ usageData' = out.data
       /\ nextId' = out.nid
       /\ disk' = [disk EXCEPT !.usage = SaveData(out.saved, out.data, @)]
       /\ uploads' = UploadsAfter(out.saved)
       /\ last' = Request("usage", f, out)
    /\ nreq' = nreq + 1
    /\ UNCHANGED <<inflight, now, productionData, turnaroundData, bypassData, snapshots>>

\* productUsage = { ... }: the variable is assigned the new document.
ReplacedKept(old, new) == IF old.has THEN old ELSE new
Replaced(old, new) == new

UploadProductUsage(f) ==
    /\ nreq < MaxReq
    /\ LET out == ProductUsageHandler(f, productUsage, nextId, now) IN
       /\ productUsage' = Replaced(productUsage, out.data)
       /\ disk' = [disk EXCEPT
                     !.productUsage = SaveData(out.saved, out.data, @)]
       /\ uploads' = UploadsAfter(out.saved)
       /\ last' = Request("product-usage", f, out)
    /\ nreq' = nreq + 1
    /\ UNCHANGED <<inflight, now, nextId, history, productWastage, detailedWastage,
                   stockDoses>>

UploadProductWastage(f) ==
    /\ nreq < MaxReq
    /\ LET out == ProductWastageHandler(f, productWastage, nextId, now) IN
       /\ productWastage' = Replaced(productWastage, out.data)
       /\ disk' = [disk EXCEPT
                     !.productWastage = SaveData(out.saved, out.data, @)]
       /\ uploads' = UploadsAfter(out.saved)
       /\ last' = Request("product-wastage", f, out)
    /\ nreq' = nreq + 1
    /\ UNCHANGED <<inflight, now, nextId, history, productUsage, detailedWastage,
                   stockDoses>>

UploadDetailedWastage(f) ==
    /\ nreq < MaxReq
    /\ LET out == DetailedWastageHandler(f, detailedWastage, nextId, now) IN
       /\ detailedWastage' = Replaced(detailedWastage, out.data)
       /\ disk' = [disk EXCEPT
                     !.detailedWastage = SaveData(out.saved, out.data, @)]
       /\ uploads' = UploadsAfter(out.saved)
       /\ last' = Request("detailed-wastage", f, out)
    /\ nreq' = nreq + 1
    /\ UNCHANGED <<inflight, now, nextId, history, productUsage, productWastage,
                   stockDoses>>

UploadStockDoses(f) ==
    /\ nreq < MaxReq
    /\ LET out == StockDosesHandler(f, stockDoses, nextId, now) IN
       /\ stockDoses' = Replaced(stockDoses, out.data)
       /\ disk' = [disk EXCEPT
                     !.stockDoses = SaveData(out.saved, out.data, @)]
       /\ uploads' = UploadsAfter(out.saved)
       /\ last' = Request("stock-doses", f, out)
    /\ nreq' = nreq + 1
    /\ UNCHANGED <<inflight, now, nextId, history, productUsage, productWastage,
                   detailedWastage>>

\* POST /api/clear: the four history collections become [] and are saved.
ClearKept(coll) == coll
Cleared(coll) == <<>>

Clear ==
    /\ nreq < MaxReq
    /\ productionData' = Cleared(productionData)
    /\ turnaroundData' = Cleared(turnaroundData)
    /\ bypassData' = Cleared(bypassData)
    /\ usageData' = Cleared(usageData)
    /\ disk' = [disk EXCEPT
                  !.production = SaveData(TRUE, productionData', @),
                  !.turnaround = SaveData(TRUE, turnaroundData', @),
                  !.bypass = SaveData(TRUE, bypassData', @),
                  !.usage = SaveData(TRUE, usageData', @)]
    /\ last' = [op |-> "clear", file |-> <<>>, status |-> 200,
                results |-> <<>>, tmp |-> -1, at |-> now]
    /\ nreq' = nreq + 1
    /\ UNCHANGED <<inflight, now, nextId, uploads, snapshots>>

-----------------------------------------------------------------------------
(* Read endpoints. *)

\* cutoff = new Date(); cutoff.setDate(cutoff.getDate() - parseInt(days)):
\* the same time of day, days days earlier.  new Date(d.date) is UTC midnight
\* of the record's date.
InWindow(date, t, days) == date * TicksPerDay >= t - days * TicksPerDay

WindowFilter(coll, t, days) ==
    SelectSeq(coll, LAMBDA r : InWindow(r.date, t, days))

\* filtered.sort((a, b) => a.date.localeCompare(b.date)): stable, oldest first
RECURSIVE InsertAsc(_, _)
InsertAsc(sorted, r) ==
    IF sorted = <<>> THEN <<r>>
    ELSE IF Head(sorted).date <= r.date
         THEN <<Head(sorted)>> \o InsertAsc(Tail(sorted), r)
         ELSE <<r>> \o sorted

RECURSIVE SortByDateAsc(_)
SortByDateAsc(coll) ==
    IF coll = <<>> THEN <<>>
    ELSE InsertAsc(SortByDateAsc(SubSeq(coll, 1, Len(coll) - 1)),
                   coll[Len(coll)])

\* GET /api/production/daily with grouping=daily
ProductionDaily(data, t, days) == WindowFilter(data, t, days)

\* GET /api/turnaround/daily
TurnaroundDaily(data, t, days) == SortByDateAsc(WindowFilter(data, t, days))

\* byPriority[k].count += stats.count; byPriority[k].total_time +=
\* stats.total_time, over the entries of the map dim of every filtered record
RollUp(filtered, dim) ==
    LET Has(k) == {i \in 1..Len(filtered) : k \in DOMAIN filtered[i][dim]}
    IN [k \in UNION {DOMAIN filtered[i][dim] : i \in 1..Len(filtered)} |->
          [count |-> SumFn([i \in Has(k) |-> filtered[i][dim][k].count]),
           total_time |->
               SumFn([i \in Has(k) |-> filtered[i][dim][k].total_time])]]

\* stats.count > 0 ? parseFloat((stats.total_time / stats.count).toFixed(1)) : 0
AvgOf(stats) ==
    IF stats.count > 0 THEN Round1(stats.total_time, stats.count) ELSE 0

\* getPriorityLabel: labels[priority] || `Priority ${priority}`
getPriorityLabel(priority) ==
    CASE priority = 10 -> [text |-> "STAT", n |-> 0]
      [] priority = 20 -> [text |-> "ASAP", n |-> 0]
      [] priority = 30 -> [text |-> "Urgent", n |-> 0]
      [] priority = 40 -> [text |-> "Routine", n |-> 0]
      [] priority = 45 -> [text |-> "Standard", n |-> 0]
      [] priority = 50 -> [text |-> "Low", n |-> 0]
      [] priority = 55 -> [text |-> "Batch", n |-> 0]
      [] OTHER -> [text |-> "Priority", n |-> priority]

\* .sort((a, b) => a.priority - b.priority) over the entries of byPriority
RECURSIVE PriorityEntries(_, _)
PriorityEntries(byPriority, keys) ==
    IF keys = {} THEN <<>>
    ELSE LET k == SetMin(keys)
         IN <<[priority |-> k,
               priority_label |-> getPriorityLabel(k),
               count |-> byPriority[k].count,
               avg_turnaround |-> AvgOf(byPriority[k])]>>
            \o PriorityEntries(byPriority, keys \ {k})

\* GET /api/turnaround/by-priority
TurnaroundByPriority(data, t, days) ==
    LET byPriority == RollUp(WindowFilter(data, t, days), "by_priority")
    IN PriorityEntries(byPriority, DOMAIN byPriority)

\* GET /api/turnaround/by-workstation: the entries of the answer, as a set
\* (the answer lists them by count, largest first).
TurnaroundByWorkstation(data, t, days) ==
    LET byWorkstation == RollUp(WindowFilter(data, t, days), "by_workstation")
    IN {[workstation |-> ws,
         count |-> byWorkstation[ws].count,
         avg_turnaround |-> AvgOf(byWorkstation[ws])] :
           ws \in DOMAIN byWorkstation}

\* GET /api/usage/daily
UsageDaily(data, t, days) == SortByDateAsc(WindowFilter(data, t, days))

\* if (!productUsage.summary) and the like: a field of a snapshot variable is
\* missing exactly while the variable holds the [] of an absent file (every
\* field a handler stores is an object or an array, which is truthy).
MissingNever(doc, name) == FALSE
Missing(doc, name) == ~doc.has

\* doc.name: undefined on the [] of an absent file
Undefined == [undefined |-> TRUE]
Field(doc, name) == IF doc.has THEN doc[name] ELSE Undefined

\* GET /api/product-usage/summary
ProductUsageSummary(doc) ==
    IF Missing(doc, "summary")
    THEN [total_products |-> 0, total_locations |-> 0,
          total_product_uses |-> 0, total_doses |-> 0]
    ELSE Field(doc, "summary")

Answer(op, days, body) ==
    [op |-> op, file |-> [days |-> days], status |-> 200, results |-> body,
     tmp |-> -1, at |-> now]

Query(op, days, body) ==
    /\ nreq < MaxReq
    /\ last' = Answer(op, days, body)
    /\ nreq' = nreq + 1
    /\ UNCHANGED <<inflight, now, nextId, uploads, history, snapshots, disk>>

GetProductionDaily(days) ==
    Query("production/daily", days, ProductionDaily(productionData, now, days))

GetTurnaroundDaily(days) ==
    Query("turnaround/daily", days, TurnaroundDaily(turnaroundData, now, days))

GetTurnaroundByPriority(days) ==
    Query("turnaround/by-priority", days,
          TurnaroundByPriority(turnaroundData, now, days))

GetTurnaroundByWorkstation(days) ==
    Query("turnaround/by-workstation", days,
          TurnaroundByWorkstation(turnaroundData, now, days))

GetUsageDaily(days) ==
    Query("usage/daily", days, UsageDaily(usageData, now, days))

GetProductUsageSummary ==
    Query("product-usage/summary", 0, ProductUsageSummary(productUsage))

-----------------------------------------------------------------------------
(* The other read endpoints.  A reply is [status, body]; no read handler    *)
(* catches an exception, so one that throws answers 500 through the default *)
(* error handler of express.  Figures that the code rounds with toFixed(1)  *)
(* are kept in tenths where they are quotients, and as they are where they  *)
(* are integer sums.                                                        *)

Reply(body) == [status |-> 200, body |-> body]
Thrown == [status |-> 500, body |-> ErrorBody]

\* Object.entries(doc.name), [...doc.name] and doc.name.slice(...) throw a
\* TypeError when doc.name is undefined.
Deref(doc, reply) == IF doc.has THEN reply ELSE Thrown

\* Object.entries(m) as a list of [key, value], in one fixed order that the
\* model leaves open (the code's order is the insertion order of the keys).
RECURSIVE Entries(_)
Entries(m) ==
    IF DOMAIN m = {} THEN <<>>
    ELSE LET k == CHOOSE x \in DOMAIN m : TRUE
         IN <<[key |-> k, value |-> m[k]]>>
            \o Entries([x \in DOMAIN m \ {k} |-> m[x]])

\* list.map(fn), for fn given as an operator
MapSeq(list, Fn(_)) == [i \in 1..Len(list) |-> Fn(list[i])]

\* list.slice(0, parseInt(limit)): a negative limit counts from the end
Slice(list, limit) ==
    IF limit >= 0
    THEN SubSeq(list, 1, IF limit < Len(list) THEN limit ELSE Len(list))
    ELSE SubSeq(list, 1, Len(list) + limit)

\* Math.round(a / b) and parseFloat((a / b).toFixed(0)), for a >= 0, b > 0
RoundDiv(a, b) == (2 * a + b) \div (2 * b)

\* total > 0 ? parseFloat((waste * 100 / total).toFixed(1)) : 0
PercentOf(waste, total) == IF total > 0 THEN Round1(waste * 100, total) ELSE 0

\* GET /api/product-usage/by-location (the filter on the location text lets
\* every location the upload stores through: none is '' or 'undefined')
ProductUsageByLocation(doc) ==
    IF Missing(doc, "by_location") THEN Reply(<<>>)
    ELSE Deref(doc, Reply(SortDescBy(
            MapSeq(Entries(doc.by_location),
                   LAMBDA e : [location |-> e.key,
                               product_count |-> e.value.productCount,
                               dose_count |-> e.value.doseCount,
                               unique_products |->
                                   Cardinality(DOMAIN e.value.products)]),
            "product_count")))

\* The sorted entries of productUsage.by_product, before .slice
ProductUsageProducts(doc) ==
    SortDescBy(
        MapSeq(Entries(doc.by_product),
               LAMBDA e : [name |-> e.key,
                           ndc |-> e.value.ndc,
                           product_count |-> e.value.productCount,
                           dose_count |-> e.value.doseCount,
                           locations_used |->
                               Cardinality(DOMAIN e.value.locations)]),
        "product_count")

\* GET /api/product-usage/top-products
ProductUsageTopProducts(doc, limit) ==
    IF Missing(doc, "by_product") THEN Reply(<<>>)
    ELSE Deref(doc, Reply(Slice(ProductUsageProducts(doc), limit)))

\* GET /api/product-wastage/summary
ProductWastageSummary(doc) ==
    IF Missing(doc, "summary")
    THEN Reply([total_products |-> 0, total_waste_ml |-> 0,
                total_waste_dollars |-> 0, total_partial_products |-> 0])
    ELSE Reply(Field(doc, "summary"))

\* sortBy of the two wastage queries: any other text sorts by the default
SortField(sortBy, fields, default) ==
    IF sortBy \in fields THEN sortBy ELSE default

\* GET /api/product-wastage/top-waste
ProductWastageTopWaste(doc, limit, sortBy) ==
    IF Missing(doc, "products") THEN Reply(<<>>)
    ELSE Deref(doc, Reply(Slice(
            SortDescBy(doc.products,
                       SortField(sortBy, {"waste_dollars", "waste_percent"},
                                 "waste_ml")),
            limit)))

\* GET /api/product-wastage/by-type
ProductWastageByType(doc) ==
    IF Missing(doc, "by_type") THEN Reply(<<>>)
    ELSE Deref(doc, Reply(SortDescBy(
            MapSeq(Entries(doc.by_type),
                   LAMBDA e : [type |-> e.key,
                               product_count |-> e.value.count,
                               waste_ml |-> e.value.waste_ml,
                               waste_dollars |-> e.value.waste_dollars]),
            "waste_ml")))

\* GET /api/detailed-wastage/summary
DetailedWastageSummary(doc) ==
    IF Missing(doc, "summary")
    THEN Reply([total_records |-> 0, total_dates |-> 0, total_waste_ml |-> 0])
    ELSE Reply(Field(doc, "summary"))

\* GET /api/detailed-wastage/daily
DetailedWastageDaily(doc, t, days) ==
    IF Missing(doc, "by_date") THEN Reply(<<>>)
    ELSE Deref(doc, Reply(SortByDateAsc(
            MapSeq(SelectSeq(Entries(doc.by_date),
                             LAMBDA e : InWindow(e.key, t, days)),
                   LAMBDA e : [date |-> e.key,
                               total_volume |-> e.value.total_volume,
                               used_volume |-> e.value.used_volume,
                               waste_volume |-> e.value.waste_volume,
                               waste_percent |->
                                   PercentOf(e.value.waste_volume,
                                             e.value.total_volume),
                               product_count |-> e.value.product_count,
                               multi_dose_count |-> e.value.multi_dose_count,
                               stock_count |-> e.value.stock_count]))))

\* GET /api/detailed-wastage/by-product
DetailedWastageByProduct(doc, limit, sortBy) ==
    IF Missing(doc, "by_product") THEN Reply(<<>>)
    ELSE Deref(doc, Reply(Slice(SortDescBy(
            MapSeq(Entries(doc.by_product),
                   LAMBDA e : [name |-> e.key,
                               ndc |-> e.value.ndc,
                               total_volume |-> e.value.total_volume,
                               used_volume |-> e.value.used_volume,
                               waste_volume |-> e.value.waste_volume,
                               waste_percent |->
                                   PercentOf(e.value.waste_volume,
                                             e.value.total_volume),
                               count |-> e.value.count,
                               is_multi_dose |-> e.value.is_multi_dose,
                               is_stock |-> e.value.is_stock]),
            SortField(sortBy, {"waste_percent", "count"}, "waste_volume")),
            limit)))

\* GET /api/detailed-wastage/by-location
DetailedWastageByLocation(doc) ==
    IF Missing(doc, "by_location") THEN Reply(<<>>)
    ELSE Deref(doc, Reply(SortDescBy(
            MapSeq(Entries(doc.by_location),
                   LAMBDA e : [location |-> e.key,
                               total_volume |-> e.value.total_volume,
                               used_volume |-> e.value.used_volume,
                               waste_volume |-> e.value.waste_volume,
                               waste_percent |->
                                   PercentOf(e.value.waste_volume,
                                             e.value.total_volume),
                               count |-> e.value.count]),
            "waste_volume")))

\* GET /api/stock-doses/summary
StockDosesSummary(doc) ==
    IF Missing(doc, "summary")
    THEN Reply([total_stock_types |-> 0, total_dilution_types |-> 0,
                total_doses_made |-> 0])
    ELSE Reply(Field(doc, "summary"))

\* data of GET /api/stock-doses/all: type is 'all', 'stock' or 'dilution'
StockDosesOf(doc, type) ==
    IF type = "dilution" THEN doc.dilutions
    ELSE IF type = "stock" THEN doc.stocks
    ELSE doc.all

\* GET /api/stock-doses/all
StockDosesAll(doc, limit, type) ==
    IF Missing(doc, "all") THEN Reply(<<>>)
    ELSE Deref(doc, Reply(Slice(StockDosesOf(doc, type), limit)))

\* GET /api/stock-doses/top
StockDosesTop(doc, limit) ==
    IF Missing(doc, "all") THEN Reply(<<>>)
    ELSE Deref(doc, Reply(Slice(doc.all, limit)))

\* list.reduce((sum, d) => sum + d[k], 0)
SumOver(list, k) == SumFn([i \in 1..Len(list) |-> list[i][k]])

\* GET /api/summary: avg_turnaround_minutes in tenths, bypass_rate in
\* hundredths (toFixed(2)), data_range.production null on an empty collection
Summary(production, turnaround, bypass, t, days) ==
    LET recentProduction == WindowFilter(production, t, days)
        recentTurnaround == WindowFilter(turnaround, t, days)
        totalDoses == SumOver(recentProduction, "total_doses")
        totalBypasses == SumOver(bypass, "total_bypasses")
    IN Reply([total_doses |-> totalDoses,
              days_tracked |-> Len(recentProduction),
              avg_turnaround_minutes |->
                  IF Len(recentTurnaround) > 0
                  THEN RoundDiv(SumOver(recentTurnaround, "avg_turnaround"),
                                Len(recentTurnaround))
                  ELSE 0,
              total_bypasses |-> totalBypasses,
              bypass_rate |->
                  IF totalDoses > 0
                  THEN RoundDiv(totalBypasses * 10000, totalDoses) ELSE 0,
              data_range |->
                  IF Len(production) > 0
                  THEN <<[start |-> production[Len(production)].date,
                          end |-> production[1].date]>>
                  ELSE <<>>])

\* The proleptic Gregorian calendar that Date keeps: the month and the day of
\* the month of a day number.
CivilFromDays(date) ==
    LET z == date + 719468
        era == z \div 146097
        doe == z - era * 146097
        yoe == (doe - doe \div 1460 + doe \div 36524 - doe \div 146096) \div 365
        doy == doe - (365 * yoe + yoe \div 4 - yoe \div 100)
        mp == (5 * doy + 2) \div 153
    IN [month |-> IF mp < 10 THEN mp + 3 ELSE mp - 9,
        day |-> doy - (153 * mp + 2) \div 5 + 1]

\* date.getDay(): 0 is Sunday, and day number 0 is a Thursday
getDay(date) == (date + 4) % 7

\* monday.setDate(date.getDate() - day + (day === 0 ? -6 : 1))
MondayOf(date) ==
    LET day == getDay(date) IN date - day + (IF day = 0 THEN -6 ELSE 1)

\* 'Week of ' + monday.toLocaleDateString('en-US', {month: 'short',
\* day: 'numeric'}): the month and the day of the Monday, without the year
WeekKey(date) == CivilFromDays(MondayOf(date))

\* byWeek[weekKey].hourly[hour] = (... || 0) + count over the records of a week
HourlyUnion(records) ==
    [h \in UNION {DOMAIN records[i].hourly : i \in 1..Len(records)} |->
        SumFn([i \in {j \in 1..Len(records) : h \in DOMAIN records[j].hourly}
                 |-> records[i].hourly[h]])]

\* The entries of byWeek, by sortKey ascending (sortKey is the earliest date
\* of a group, and no two groups share one).
RECURSIVE WeekGroups(_, _)
WeekGroups(filtered, keys) ==
    IF keys = {} THEN <<>>
    ELSE LET Of(k) == SelectSeq(filtered, LAMBDA d : WeekKey(d.date) = k)
             First(k) == SetMin({Of(k)[i].date : i \in 1..Len(Of(k))})
             k == CHOOSE x \in keys : \A y \in keys : First(x) <= First(y)
         IN <<[date |-> k,
               total_doses |-> SumOver(Of(k), "total_doses"),
               sortKey |-> First(k),
               hourly |-> HourlyUnion(Of(k))]>>
            \o WeekGroups(filtered, keys \ {k})

\* GET /api/production/daily: grouping is 'daily' or 'weekly'
ProductionDailyGrouped(data, t, days, grouping) ==
    LET filtered == WindowFilter(data, t, days)
    IN Reply(IF grouping = "weekly"
             THEN WeekGroups(filtered,
                    {WeekKey(filtered[i].date) : i \in 1..Len(filtered)})
             ELSE filtered)

\* formatHour: [n, pm] reads "n AM" or "n PM"
formatHour(hour) ==
    IF hour = 0 THEN [n |-> 12, pm |-> FALSE]
    ELSE IF hour = 12 THEN [n |-> 12, pm |-> TRUE]
    ELSE IF hour < 12 THEN [n |-> hour, pm |-> FALSE]
    ELSE [n |-> hour - 12, pm |-> TRUE]

\* byHour[h] of the hourly queries: only the keys 0..23 exist, so an hourly
\* entry under another key is passed over.
HourTotal(records, k, h) ==
    SumFn([i \in {j \in 1..Len(records) : h \in DOMAIN records[j][k]} |->
              records[i][k][h]])

HourDays(records, k, h) ==
    Cardinality({j \in 1..Len(records) : h \in DOMAIN records[j][k]})

\* GET /api/production/hourly: entry h + 1 of the answer is hour h
ProductionHourly(data, t, days) ==
    LET filtered == WindowFilter(data, t, days)
    IN Reply([i \in 1..24 |->
                [hour |-> i - 1,
                 hour_label |-> formatHour(i - 1),
                 total_doses |-> HourTotal(filtered, "hourly", i - 1),
                 avg_doses |->
                    IF HourDays(filtered, "hourly", i - 1) > 0
                    THEN RoundDiv(HourTotal(filtered, "hourly", i - 1),
                                  HourDays(filtered, "hourly", i - 1))
                    ELSE 0]])

\* The sorted entries of byDrug, before .slice
TurnaroundDrugs(data, t, days) ==
    LET byDrug == RollUp(WindowFilter(data, t, days), "by_drug")
    IN SortDescBy(
            MapSeq(Entries(byDrug),
                   LAMBDA e : [drug |-> e.key,
                               count |-> e.value.count,
                               avg_turnaround |-> AvgOf(e.value)]),
            "count")

\* GET /api/turnaround/top-drugs
TurnaroundTopDrugs(data, t, days, limit) ==
    Reply(Slice(TurnaroundDrugs(data, t, days), limit))

\* GET /api/bypass/summary
BypassSummary(data) ==
    LET Of(loc) == SelectSeq(data, LAMBDA d : d.location = loc)
        byLocation == [loc \in {data[i].location : i \in 1..Len(data)} |->
                          [total_bypasses |-> SumOver(Of(loc), "total_bypasses"),
                           hourly |-> HourlyUnion(Of(loc))]]
    IN Reply(SortDescBy(
            MapSeq(Entries(byLocation),
                   LAMBDA e : [location |-> e.key,
                               total_bypasses |-> e.value.total_bypasses,
                               hourly |-> e.value.hourly]),
            "total_bypasses"))

\* GET /api/bypass/hourly
BypassHourly(data) ==
    Reply([i \in 1..24 |->
             [hour |-> i - 1,
              hour_label |-> formatHour(i - 1),
              bypasses |-> HourTotal(data, "hourly", i - 1)]])

\* byProduct[product] of the usage queries: used, waste and count summed over
\* the filtered records, ndc taken from the first record that has the product
UsageRollUp(filtered, dim) ==
    LET Has(k) == {i \in 1..Len(filtered) : k \in DOMAIN filtered[i][dim]}
    IN [k \in UNION {DOMAIN filtered[i][dim] : i \in 1..Len(filtered)} |->
          [used |-> SumFn([i \in Has(k) |-> filtered[i][dim][k].used]),
           waste |-> SumFn([i \in Has(k) |-> filtered[i][dim][k].waste]),
           count |-> SumFn([i \in Has(k) |-> filtered[i][dim][k].count]),
           first |-> filtered[SetMin(Has(k))][dim][k]]]

\* The sorted entries of byProduct, before .slice
UsageWaste(data, t, days) ==
    LET byProduct == UsageRollUp(WindowFilter(data, t, days), "by_product")
    IN SortDescBy(
            MapSeq(Entries(byProduct),
                   LAMBDA e : [product |-> e.key,
                               ndc |-> e.value.first.ndc,
                               used_ml |-> e.value.used,
                               waste_ml |-> e.value.waste,
                               total_ml |-> e.value.used + e.value.waste,
                               waste_percent |->
                                   PercentOf(e.value.waste,
                                             e.value.used + e.value.waste),
                               count |-> e.value.count]),
            "waste_ml")

\* GET /api/usage/top-waste
UsageTopWaste(data, t, days, limit) ==
    Reply(Slice(UsageWaste(data, t, days), limit))

\* GET /api/usage/by-location
UsageByLocation(data, t, days) ==
    LET byLocation == UsageRollUp(WindowFilter(data, t, days), "by_location")
    IN Reply(SortDescBy(
            MapSeq(Entries(byLocation),
                   LAMBDA e : [location |-> e.key,
                               used_ml |-> e.value.used,
                               waste_ml |-> e.value.waste,
                               waste_percent |->
                                   PercentOf(e.value.waste,
                                             e.value.used + e.value.waste),
                               count |-> e.value.count]),
            "waste_ml"))

\* GET /api/usage/summary
UsageSummary(data, t, days) ==
    LET filtered == WindowFilter(data, t, days)
        totalVolume == SumOver(filtered, "total_volume")
        wasteVolume == SumOver(filtered, "waste_volume")
    IN Reply([total_volume_ml |-> totalVolume,
              used_volume_ml |-> SumOver(filtered, "used_volume"),
              waste_volume_ml |-> wasteVolume,
              waste_percent |-> PercentOf(wasteVolume, totalVolume),
              product_uses |-> SumOver(filtered, "product_count"),
              days_tracked |-> Len(filtered)])

\* A read request: params are the query parameters it came with.
QueryReply(op, params, reply) ==
    /\ nreq < MaxReq
    /\ last' = [op |-> op, file |-> params, status |-> reply.status,
                results |-> reply.body, tmp |-> -1, at |-> now]
    /\ nreq' = nreq + 1
    /\ UNCHANGED <<inflight, now, nextId, uploads, history, snapshots, disk>>

GetSummary(days) ==
    QueryReply("summary", [days |-> days],
               Summary(productionData, turnaroundData, bypassData, now, days))

GetProductionDailyGrouped(days, grouping) ==
    QueryReply("production/daily", [days |-> days, grouping |-> grouping],
               ProductionDailyGrouped(productionData, now, days, grouping))

GetProductionHourly(days) ==
    QueryReply("production/hourly", [days |-> days],
               ProductionHourly(productionData, now, days))

GetTurnaroundTopDrugs(days, limit) ==
    QueryReply("turnaround/top-drugs", [days |-> days, limit |-> limit],
               TurnaroundTopDrugs(turnaroundData, now, days, limit))

GetBypassSummary ==
    QueryReply("bypass/summary", <<>>, BypassSummary(bypassData))

GetBypassHourly ==
    QueryReply("bypass/hourly", <<>>, BypassHourly(bypassData))

GetUsageTopWaste(days, limit) ==
    QueryReply("usage/top-waste", [days |-> days, limit |-> limit],
               UsageTopWaste(usageData, now, days, limit))

GetUsageByLocation(days) ==
    QueryReply("usage/by-location", [days |-> days],
               UsageByLocation(usageData, now, days))

GetUsageSummary(days) ==
    QueryReply("usage/summary", [days |-> days],
               UsageSummary(usageData, now, days))

GetProductUsageByLocation ==
    QueryReply("product-usage/by-location", <<>>,
               ProductUsageByLocation(productUsage))

GetProductUsageTopProducts(limit) ==
    QueryReply("product-usage/top-products", [limit |-> limit],
               ProductUsageTopProducts(productUsage, limit))

GetProductWastageSummary ==
    QueryReply("product-wastage/summary", <<>>,
               ProductWastageSummary(productWastage))

GetProductWastageTopWaste(limit, sortBy) ==
    QueryReply("product-wastage/top-waste",
               [limit |-> limit, sortBy |-> sortBy],
               ProductWastageTopWaste(productWastage, limit, sortBy))

GetProductWastageByType ==
    QueryReply("product-wastage/by-type", <<>>,
               ProductWastageByType(productWastage))

GetDetailedWastageSummary ==
    QueryReply("detailed-wastage/summary", <<>>,
               DetailedWastageSummary(detailedWastage))

GetDetailedWastageDaily(days) ==
    QueryReply("detailed-wastage/daily", [days |-> days],
               DetailedWastageDaily(detailedWastage, now, days))

GetDetailedWastageByProduct(limit, sortBy) ==
    QueryReply("detailed-wastage/by-product",
               [limit |-> limit, sortBy |-> sortBy],
               DetailedWastageByProduct(detailedWastage, limit, sortBy))

GetDetailedWastageByLocation ==
    QueryReply("detailed-wastage/by-location", <<>>,
               DetailedWastageByLocation(detailedWastage))

GetStockDosesSummary ==
    QueryReply("stock-doses/summary", <<>>, StockDosesSummary(stockDoses))

GetStockDosesAll(limit, type) ==
    QueryReply("stock-doses/all", [limit |-> limit, type |-> type],
               StockDosesAll(stockDoses, limit, type))

GetStockDosesTop(limit) ==
    QueryReply("stock-doses/top", [limit |-> limit],
               StockDosesTop(stockDoses, limit))

-----------------------------------------------------------------------------
(* Uploaded sheets. *)

Unreadable ==
    [readable |-> FALSE, hasHeader |-> FALSE, h0 |-> "", cols |-> <<>>,
     rows |-> <<>>]
NoHeader ==
    [readable |-> TRUE, hasHeader |-> FALSE, h0 |-> "", cols |-> <<>>,
     rows |-> <<>>]
Sheet(h0, cols, rows) ==
    [readable |-> TRUE, hasHeader |-> TRUE, h0 |-> h0, cols |-> cols,
     rows |-> rows]
Row(key, cells) == [key |-> key, cells |-> cells]

Serial(d) == Num(EpochOffset + d)
BadDate == Str(7)

HoursA == <<Label(8, 0), Label(9, 0)>>

ProductionOne ==
    Sheet("EntryDate", HoursA, <<Row(Serial(0), <<Num(1), Num(2)>>)>>)
ProductionTwo ==
    Sheet("EntryDate", HoursA, <<Row(Serial(1), <<Num(2), Empty>>),
                                 Row(Serial(0), <<Num(0), Num(1)>>)>>)
ProductionThrows ==
    Sheet("EntryDate", HoursA, <<Row(Serial(1), <<Num(1), Num(1)>>),
                                 Row(BadDate, <<Num(1), Num(1)>>)>>)
ProductionWrongHeader ==
    Sheet("Date", HoursA, <<Row(Serial(0), <<Num(1), Num(1)>>)>>)

HoursDup == <<Label(8, 0), Label(8, 30)>>
HoursPlain == <<Plain, Label(9, 0)>>

ProductionDupDate ==
    Sheet("EntryDate", HoursA, <<Row(Serial(0), <<Num(1), Num(1)>>),
                                 Row(Serial(0), <<Num(2), Num(1)>>)>>)
ProductionBlankDate ==
    Sheet("EntryDate", HoursA, <<Row(Empty, <<Num(1), Num(1)>>),
                                 Row(Serial(1), <<Num(1), Num(2)>>)>>)
\* Days 4 and 5 are Monday and Tuesday of one week, day 11 is the Monday
\* after, and day 2195 is Monday 5 January six years later.
ProductionWeeks ==
    Sheet("EntryDate", HoursA, <<Row(Serial(5), <<Num(1), Num(2)>>),
                                 Row(Serial(11), <<Num(2), Num(2)>>),
                                 Row(Serial(4), <<Num(0), Num(1)>>)>>)
ProductionYears ==
    Sheet("EntryDate", HoursA, <<Row(Serial(2195), <<Num(1), Num(2)>>),
                                 Row(Serial(4), <<Num(3), Num(0)>>)>>)
\* A header whose second hour column reads "25:00".
HoursLate == <<Label(8, 0), Label(25, 0)>>
ProductionLateHour ==
    Sheet("EntryDate", HoursLate, <<Row(Serial(0), <<Num(1), Num(2)>>)>>)
BypassLateHour ==
    Sheet("Location", HoursLate, <<Row(Str(1), <<Num(2), Num(1)>>)>>)
ProductionDupHour ==
    Sheet("EntryDate", HoursDup, <<Row(Serial(0), <<Num(1), Num(2)>>)>>)
ProductionPlainColumn ==
    Sheet("EntryDate", HoursPlain, <<Row(Serial(1), <<Num(3), Num(1)>>),
                                     Row(Serial(0), <<Num(3), Str(1)>>)>>)

BypassDupLocation ==
    Sheet("Location", HoursA, <<Row(Str(1), <<Num(1), Num(1)>>),
                                Row(Str(1), <<Num(2), Num(1)>>)>>)
BypassDupHour ==
    Sheet("Location", HoursDup, <<Row(Str(2), <<Num(1), Num(2)>>)>>)

BypassOne ==
    Sheet("Location", HoursA, <<Row(Str(1), <<Num(1), Num(2)>>)>>)
BypassTwo ==
    Sheet("Location", HoursA, <<Row(Str(2), <<Num(2), Num(0)>>),
                                Row(Str(1), <<Empty, Num(1)>>)>>)
BypassWrongHeader ==
    Sheet("EntryDate", HoursA, <<Row(Str(1), <<Num(1), Num(1)>>)>>)

NamedSheet(present, rows) ==
    [readable |-> TRUE, hasHeader |-> TRUE, present |-> present, rows |-> rows]
NamedNoHeader ==
    [readable |-> TRUE, hasHeader |-> FALSE, present |-> {}, rows |-> <<>>]

TurnaroundCols ==
    {"DoseID", "Priority", "DoseDescription", "DoseStatus", "Timeline",
     "WorkStation"}
TRow(id, pri, desc, status, time, ws) ==
    [DoseID |-> id, Priority |-> pri, DoseDescription |-> desc,
     DoseStatus |-> status, Timeline |-> time, WorkStation |-> ws]

TurnaroundOne ==
    NamedSheet(TurnaroundCols,
               <<TRow(Num(1), Num(10), Str(1), Str(1), Num(3), Str(1)),
                 TRow(Num(2), Num(20), Str(2), Str(2), Num(5), Str(1))>>)
TurnaroundTwo ==
    NamedSheet(TurnaroundCols,
               <<TRow(Num(3), Num(10), Str(0), Str(1), Num(4), Empty),
                 TRow(Num(4), Num(10), Str(1), Str(1), Num(1), Str(2))>>)
TurnaroundThrows ==
    NamedSheet(TurnaroundCols,
               <<TRow(Num(5), Num(10), Num(5), Str(1), Num(4), Str(1))>>)

TurnaroundUnsorted ==
    NamedSheet(TurnaroundCols,
               <<TRow(Num(6), Num(20), Str(1), Str(2), Num(4), Str(1)),
                 TRow(Empty, Num(10), Str(1), Str(1), Num(2), Str(1)),
                 TRow(Num(7), Num(10), Str(2), Empty, Num(2), Str(2))>>)
TurnaroundPriorities ==
    NamedSheet(TurnaroundCols,
               <<TRow(Num(8), Num(20), Str(2), Str(1), Num(2), Str(2)),
                 TRow(Num(9), Empty, Str(1), Str(1), Num(1), Str(1)),
                 TRow(Num(10), Num(20), Str(1), Str(3), Num(7), Str(3))>>)

\* A workstation named 'constructor'.
TurnaroundInherited ==
    NamedSheet(TurnaroundCols,
               <<TRow(Num(15), Num(10), Str(1), Str(1), Num(3), Str(9)),
                 TRow(Num(16), Num(20), Str(2), Str(1), Num(2), Str(1))>>)

\* Three drugs, one of them twice.
TurnaroundDrugsSheet ==
    NamedSheet(TurnaroundCols,
               <<TRow(Num(11), Num(10), Str(1), Str(1), Num(3), Str(1)),
                 TRow(Num(12), Num(20), Str(2), Str(1), Num(5), Str(1)),
                 TRow(Num(13), Num(20), Str(3), Str(1), Num(2), Str(2)),
                 TRow(Num(14), Num(10), Str(2), Str(1), Num(1), Str(2))>>)

UsageCols ==
    {"Patient Location", "Dose Preparation Time", "Product Name",
     "Product NDC", "Product Total Volume", "Product Unused Volume"}
URow(loc, prep, name, ndc, total, unused) ==
    [c \in UsageCols |->
        CASE c = "Patient Location" -> loc
          [] c = "Dose Preparation Time" -> prep
          [] c = "Product Name" -> name
          [] c = "Product NDC" -> ndc
          [] c = "Product Total Volume" -> total
          [] c = "Product Unused Volume" -> unused]

UsageOne ==
    NamedSheet(UsageCols,
               <<URow(Str(11), Serial(0), Str(1), Str(1), Num(10), Num(3))>>)
UsageTwo ==
    NamedSheet(UsageCols,
               <<URow(Str(12), Serial(1), Str(1), Str(1), Num(4), Num(1)),
                 URow(Str(20), Serial(0), Str(2), Str(2), Num(6), Num(0)),
                 URow(Empty, Serial(1), Str(2), Str(2), Num(2), Num(2))>>)
UsageThrows ==
    NamedSheet(UsageCols,
               <<URow(Str(11), Serial(0), Str(1), Str(1), Num(5), Num(5)),
                 URow(Str(11), BadDate, Str(1), Str(1), Num(1), Num(1))>>)

UsageNoDate ==
    NamedSheet(UsageCols,
               <<URow(Str(11), Serial(0), Str(1), Str(1), Num(10), Num(3)),
                 URow(Str(11), Empty, Str(1), Str(1), Num(4), Num(1)),
                 URow(Str(11), Serial(0), Empty, Str(1), Num(2), Num(2))>>)

UsageThirds ==
    NamedSheet(UsageCols,
               <<URow(Str(11), Serial(1), Str(1), Str(1), Num(2), Num(1)),
                 URow(Str(21), Serial(1), Str(2), Str(2), Num(1), Num(1)),
                 URow(Str(11), Serial(0), Str(2), Str(2), Num(0), Num(0))>>)

\* Three products with different waste.
UsageProducts ==
    NamedSheet(UsageCols,
               <<URow(Str(11), Serial(0), Str(1), Str(1), Num(5), Num(1)),
                 URow(Str(11), Serial(0), Str(2), Str(2), Num(6), Num(3)),
                 URow(Str(21), Serial(1), Str(3), Str(3), Num(4), Num(2))>>)

RowsOnly(rows) == [readable |-> TRUE, rows |-> rows]
UnreadableRows == [readable |-> FALSE, rows |-> <<>>]

PURow(name, ndc, loc, pc, dc) ==
    [name |-> name, ndc |-> ndc, location |-> loc, productCount |-> pc,
     doseCount |-> dc]
ProductUsageOne ==
    RowsOnly(<<PURow(Str(1), Str(1), Str(1), Num(2), Num(1)),
               PURow(Str(1), Str(1), Str(2), Num(1), Num(1))>>)
ProductUsageTwo ==
    RowsOnly(<<PURow(Str(2), Str(2), Empty, Num(3), Num(2)),
               PURow(Empty, Str(3), Str(1), Num(1), Num(1))>>)

ProductUsageThree ==
    RowsOnly(<<PURow(Str(1), Str(1), Str(1), Num(2), Num(1)),
               PURow(Str(2), Str(2), Str(1), Num(5), Num(1)),
               PURow(Str(3), Str(3), Str(2), Num(3), Num(2))>>)

PWRow(name, type, size, partial, ml, dollars) ==
    [name |-> name, ndc |-> Empty, type |-> type, size |-> size,
     cost |-> Num(1), partialCount |-> partial, wasteML |-> ml,
     wasteDollars |-> dollars]
ProductWastageOne ==
    RowsOnly(<<PWRow(Str(1), Str(1), Num(10), Num(2), Num(5), Num(1)),
               PWRow(Str(2), Empty, Num(0), Num(1), Num(7), Num(2))>>)

ProductWastageTwo ==
    RowsOnly(<<PWRow(Str(3), Str(2), Num(4), Num(1), Num(2), Num(3))>>)

DWRow(prep, loc, name, total, unused, desc) ==
    [prep |-> prep, location |-> loc, productName |-> name,
     productNDC |-> Empty, totalVolume |-> total, unusedVolume |-> unused,
     multiDose |-> Str(1), doseDesc |-> desc, bud |-> Empty]
DetailedWastageOne ==
    RowsOnly(<<DWRow(Serial(0), Str(11), Str(1), Num(10), Num(3), Str(50)),
               DWRow(Serial(1), Str(12), Empty, Num(4), Num(4), Str(1))>>)
DetailedWastageThrows ==
    RowsOnly(<<DWRow(Serial(0), Str(11), Str(1), Num(10), Num(3), Str(1)),
               DWRow(BadDate, Str(11), Str(1), Num(1), Num(1), Str(1))>>)

DetailedWastageTwo ==
    RowsOnly(<<DWRow(Serial(1), Str(21), Str(2), Num(6), Num(1), Str(2))>>)

SDRow(dose, total) == [dose |-> dose, total |-> total]
StockDosesOne ==
    RowsOnly(<<SDRow(Str(4), Num(2)), SDRow(Str(5), Num(3)),
               SDRow(Str(6), Num(1))>>)
StockDosesTwo ==
    RowsOnly(<<SDRow(Str(7), Num(4)), SDRow(Str(8), Num(1))>>)
StockDosesThrows ==
    RowsOnly(<<SDRow(Str(4), Num(2)), SDRow(Num(5), Num(3))>>)
\* A row without a dose, equal totals and a total that is not a number.
StockDosesMixed ==
    RowsOnly(<<SDRow(Str(4), Num(2)), SDRow(Empty, Num(9)),
               SDRow(Str(5), Num(2)), SDRow(Str(7), Str(1)),
               SDRow(Str(8), Num(5)), SDRow(Str(4), Num(2))>>)

-----------------------------------------------------------------------------
(* Uploads in flight. *)

\* upload.single('file') ahead of the handler: multer takes the file part of
\* the request, names it Date.now() + '-' + originalname (one original name
\* here) and opens a write stream on that path, which creates the file or
\* truncates the one that is there; the request body then streams into it
\* while other requests are served.
ArriveProduction(f) ==
    /\ nreq + Cardinality(inflight.pending) < MaxReq
    /\ LET name == TmpName
           streaming == {r.file : r \in {q \in inflight.pending : q.name = name}}
       IN /\ inflight' =
                [pending |-> inflight.pending \cup
                     {[id |-> Len(inflight.log) + 1, op |-> "production",
                       file |-> f, name |-> name]},
                 written |->
                     [n \in DOMAIN inflight.written \cup {name} |->
                         IF n = name THEN streaming \cup {f}
                         ELSE inflight.written[n]],
                 log |-> Append(inflight.log,
                                [op |-> "production", file |-> f,
                                 name |-> name])]
          /\ uploads' = uploads \cup {name}
    /\ UNCHANGED <<now, nreq, nextId, history, snapshots, disk, last>>

\* What XLSX.readFile(req.file.path) finds when the stream of request r has
\* finished: nothing when another handler has unlinked the path (ENOENT, as
\* unreadable as a broken workbook), the file of r when no other stream
\* wrote to the path, and otherwise the file of either stream or a mixture
\* of the two that is no workbook.
StoredFile(r) ==
    IF r.name \notin uploads THEN {Unreadable}
    ELSE IF inflight.written[r.name] = {r.file} THEN {r.file}
    ELSE inflight.written[r.name] \cup {Unreadable}

\* The stream of r finishes and the handler of POST /api/upload/production
\* runs to its end on the file at req.file.path.
HandleProduction(r) ==
    /\ r \in inflight.pending
    /\ r.op = "production"
    /\ \E f \in StoredFile(r) :
          LET out == ProductionHandler(f, productionData, nextId, now) IN
          /\ productionData' = out.data
          /\ nextId' = out.nid
          /\ disk' = [disk EXCEPT
                        !.production = SaveData(out.saved, out.data, @)]
          /\ uploads' = IF out.saved THEN uploads \ {r.name} ELSE uploads
          /\ last' = [op |-> "production", file |-> r.file,
                      status |-> out.status, results |-> out.results,
                      tmp |-> r.name, at |-> now]
          /\ inflight' =
                [inflight EXCEPT
                    !.pending = @ \ {r},
                    !.written =
                        IF out.saved
                        THEN [n \in DOMAIN @ \ {r.name} |-> @[n]]
                        ELSE @]
    /\ nreq' = nreq + 1
    /\ UNCHANGED <<now, turnaroundData, bypassData, usageData, snapshots>>

-----------------------------------------------------------------------------
(* Spec: every ingest endpoint and the bulk clear, one accepted and one     *)
(* failing sheet for each endpoint.                                         *)

Next ==
    \/ Tick
    \/ \E f \in {ProductionOne, ProductionThrows, ProductionWrongHeader} :
          UploadProduction(f)
    \/ \E f \in {TurnaroundOne, TurnaroundThrows} : UploadTurnaround(f)
    \/ \E f \in {BypassOne, BypassWrongHeader} : UploadBypass(f)
    \/ \E f \in {UsageOne, UsageThrows} : UploadUsage(f)
    \/ \E f \in {ProductUsageOne, UnreadableRows} : UploadProductUsage(f)
    \/ \E f \in {ProductWastageOne, UnreadableRows} : UploadProductWastage(f)
    \/ \E f \in {DetailedWastageOne, DetailedWastageThrows} :
          UploadDetailedWastage(f)
    \/ \E f \in {StockDosesOne, StockDosesThrows} : UploadStockDoses(f)
    \/ Clear

Spec == Init /\ [][Next]_vars

(* SpecHistory: the four history collections and the bulk clear. *)

NextHistory ==
    \/ Tick
    \/ \E f \in {ProductionOne, ProductionTwo, ProductionThrows,
                 ProductionWrongHeader} : UploadProduction(f)
    \/ \E f \in {TurnaroundOne, TurnaroundTwo, TurnaroundThrows} :
          UploadTurnaround(f)
    \/ \E f \in {BypassOne, BypassTwo, BypassWrongHeader} : UploadBypass(f)
    \/ \E f \in {UsageOne, UsageTwo, UsageThrows} : UploadUsage(f)
    \/ Clear

SpecHistory == Init /\ [][NextHistory]_vars

(* SpecHourly: the two ingests of sheets with hour columns. *)

ProductionSheets ==
    {ProductionOne, ProductionTwo, ProductionThrows, ProductionWrongHeader,
     ProductionDupDate, ProductionBlankDate, ProductionDupHour,
     ProductionPlainColumn, NoHeader, Unreadable}

BypassSheets ==
    {BypassOne, BypassTwo, BypassWrongHeader, BypassDupLocation,
     BypassDupHour, NoHeader}

NextHourly ==
    \/ Tick
    \/ \E f \in ProductionSheets : UploadProduction(f)
    \/ \E f \in BypassSheets : UploadBypass(f)
    \/ Clear

SpecHourly == Init /\ [][NextHourly]_vars

(* SpecQuery: the windowed read endpoints over ingested history. *)

NextQuery ==
    \/ Tick
    \/ \E f \in {ProductionTwo} : UploadProduction(f)
    \/ \E f \in {TurnaroundOne} : UploadTurnaround(f)
    \/ \E f \in {UsageTwo} : UploadUsage(f)
    \/ \E f \in {ProductUsageOne} : UploadProductUsage(f)
    \/ \E d \in 0..MaxDays : GetProductionDaily(d)
    \/ \E d \in 0..MaxDays : GetTurnaroundDaily(d)
    \/ \E d \in 0..MaxDays : GetUsageDaily(d)
    \/ GetProductUsageSummary

SpecQuery == Init /\ [][NextQuery]_vars

(* SpecTurnaround: turnaround uploads and the turnaround rollups. *)

TurnaroundSheets ==
    {TurnaroundOne, TurnaroundTwo, TurnaroundThrows, TurnaroundUnsorted,
     TurnaroundPriorities, TurnaroundInherited, NamedNoHeader}

NextTurnaround ==
    \/ Tick
    \/ \E f \in TurnaroundSheets : UploadTurnaround(f)
    \/ \E d \in 0..MaxDays : GetTurnaroundByPriority(d)
    \/ \E d \in 0..MaxDays : GetTurnaroundByWorkstation(d)
    \/ Clear

SpecTurnaround == Init /\ [][NextTurnaround]_vars

(* SpecUsage: usage uploads and the daily usage read. *)

UsageSheets ==
    {UsageOne, UsageTwo, UsageThrows, UsageNoDate, UsageThirds, NamedNoHeader}

NextUsage ==
    \/ Tick
    \/ \E f \in UsageSheets : UploadUsage(f)
    \/ \E d \in 0..MaxDays : GetUsageDaily(d)
    \/ Clear

SpecUsage == Init /\ [][NextUsage]_vars

(* SpecSnapshot: the four snapshot uploads beside a history upload. *)

NextSnapshot ==
    \/ Tick
    \/ \E f \in {ProductionOne} : UploadProduction(f)
    \/ \E f \in {ProductUsageOne, ProductUsageTwo, UnreadableRows} :
          UploadProductUsage(f)
    \/ \E f \in {ProductWastageOne, ProductWastageTwo} :
          UploadProductWastage(f)
    \/ \E f \in {DetailedWastageOne, DetailedWastageTwo,
                 DetailedWastageThrows} : UploadDetailedWastage(f)
    \/ \E f \in {StockDosesOne, StockDosesTwo, StockDosesThrows} :
          UploadStockDoses(f)

SpecSnapshot == Init /\ [][NextSnapshot]_vars

(* SpecRequests: ingests that succeed and fail, reads and the bulk clear. *)

NextRequests ==
    \/ Tick
    \/ \E f \in {ProductionTwo, ProductionThrows} : UploadProduction(f)
    \/ \E f \in {TurnaroundOne} : UploadTurnaround(f)
    \/ \E f \in {BypassTwo} : UploadBypass(f)
    \/ \E f \in {UsageTwo, UsageThrows} : UploadUsage(f)
    \/ \E d \in 0..MaxDays : GetProductionDaily(d)
    \/ \E d \in 0..MaxDays : GetTurnaroundDaily(d)
    \/ \E d \in 0..MaxDays : GetUsageDaily(d)
    \/ Clear

SpecRequests == Init /\ [][NextRequests]_vars

(* SpecReads: every read endpoint, over collections that are absent, loaded, *)
(* left half-merged by a failed upload, and cleared.                         *)

NextReads ==
    \/ Tick
    \/ \E f \in {ProductionOne, ProductionThrows} : UploadProduction(f)
    \/ \E f \in {TurnaroundOne} : UploadTurnaround(f)
    \/ \E f \in {BypassOne} : UploadBypass(f)
    \/ \E f \in {UsageOne} : UploadUsage(f)
    \/ \E f \in {ProductUsageOne} : UploadProductUsage(f)
    \/ \E f \in {ProductWastageOne} : UploadProductWastage(f)
    \/ \E f \in {DetailedWastageOne} : UploadDetailedWastage(f)
    \/ \E f \in {StockDosesOne} : UploadStockDoses(f)
    \/ Clear
    \/ \E d \in 0..MaxDays : GetSummary(d)
    \/ \E d \in 0..MaxDays, g \in {"daily", "weekly"} :
          GetProductionDailyGrouped(d, g)
    \/ \E d \in 0..MaxDays : GetProductionHourly(d)
    \/ \E d \in 0..MaxDays : GetTurnaroundDaily(d)
    \/ \E d \in 0..MaxDays : GetTurnaroundByPriority(d)
    \/ \E d \in 0..MaxDays : GetTurnaroundByWorkstation(d)
    \/ \E d \in 0..MaxDays : GetTurnaroundTopDrugs(d, DefaultLimit)
    \/ GetBypassSummary
    \/ GetBypassHourly
    \/ \E d \in 0..MaxDays : GetUsageDaily(d)
    \/ \E d \in 0..MaxDays : GetUsageTopWaste(d, DefaultLimit)
    \/ \E d \in 0..MaxDays : GetUsageByLocation(d)
    \/ \E d \in 0..MaxDays : GetUsageSummary(d)
    \/ GetProductUsageSummary
    \/ GetProductUsageByLocation
    \/ GetProductUsageTopProducts(DefaultLimit)
    \/ GetProductWastageSummary
    \/ \E k \in {"waste_ml", "waste_dollars", "waste_percent"} :
          GetProductWastageTopWaste(DefaultLimit, k)
    \/ GetProductWastageByType
    \/ GetDetailedWastageSummary
    \/ \E d \in 0..MaxDays : GetDetailedWastageDaily(d)
    \/ \E k \in {"waste_volume", "waste_percent", "count"} :
          GetDetailedWastageByProduct(DefaultByProduct, k)
    \/ GetDetailedWastageByLocation
    \/ GetStockDosesSummary
    \/ \E y \in {"all", "stock", "dilution"} : GetStockDosesAll(DefaultAll, y)
    \/ GetStockDosesTop(DefaultLimit)

SpecReads == Init /\ [][NextReads]_vars

(* SpecStock: stock-doses uploads and the stock-doses reads. *)

StockSheets ==
    {StockDosesOne, StockDosesTwo, StockDosesThrows, StockDosesMixed,
     UnreadableRows}

NextStock ==
    \/ Tick
    \/ \E f \in StockSheets : UploadStockDoses(f)
    \/ GetStockDosesSummary
    \/ \E y \in {"all", "stock", "dilution"} : GetStockDosesAll(DefaultAll, y)
    \/ GetStockDosesTop(DefaultLimit)

SpecStock == Init /\ [][NextStock]_vars

(* SpecTop: the queries that truncate their answer to limit. *)

NextTop ==
    \/ Tick
    \/ \E f \in {TurnaroundDrugsSheet} : UploadTurnaround(f)
    \/ \E f \in {UsageProducts} : UploadUsage(f)
    \/ \E f \in {ProductUsageThree} : UploadProductUsage(f)
    \/ \E f \in {StockDosesOne} : UploadStockDoses(f)
    \/ \E d \in 0..MaxDays, n \in -1..MaxLimit : GetTurnaroundTopDrugs(d, n)
    \/ \E d \in 0..MaxDays, n \in -1..MaxLimit : GetUsageTopWaste(d, n)
    \/ \E n \in -1..MaxLimit : GetProductUsageTopProducts(n)
    \/ \E n \in -1..MaxLimit, y \in {"all", "stock", "dilution"} :
          GetStockDosesAll(n, y)
    \/ \E n \in -1..MaxLimit : GetStockDosesTop(n)

SpecTop == Init /\ [][NextTop]_vars

(* SpecDrugs: turnaround uploads and the top-drugs rollup. *)

NextDrugs ==
    \/ Tick
    \/ \E f \in {TurnaroundOne, TurnaroundTwo, TurnaroundUnsorted,
                 TurnaroundDrugsSheet, TurnaroundInherited} :
          UploadTurnaround(f)
    \/ \E d \in 0..MaxDays : GetTurnaroundTopDrugs(d, DefaultLimit)
    \/ Clear

SpecDrugs == Init /\ [][NextDrugs]_vars

(* SpecHours: production and bypass uploads and the two hourly patterns. *)

NextHours ==
    \/ Tick
    \/ \E f \in {ProductionOne, ProductionTwo, ProductionLateHour} :
          UploadProduction(f)
    \/ \E f \in {BypassOne, BypassLateHour} : UploadBypass(f)
    \/ \E d \in 0..MaxDays : GetProductionHourly(d)
    \/ GetBypassHourly
    \/ Clear

SpecHours == Init /\ [][NextHours]_vars

(* SpecWeekly: production uploads and the daily production read, grouped by *)
(* day or by week.                                                          *)

NextWeekly ==
    \/ Tick
    \/ \E f \in {ProductionOne, ProductionTwo, ProductionWeeks,
                 ProductionYears} : UploadProduction(f)
    \/ \E d \in 0..MaxDays, g \in {"daily", "weekly"} :
          GetProductionDailyGrouped(d, g)
    \/ Clear

SpecWeekly == Init /\ [][NextWeekly]_vars

(* SpecConcurrent: production uploads whose files multer stores while other *)
(* requests arrive and are handled, and reads between the handlers.         *)

NextConcurrent ==
    \/ Tick
    \/ \E f \in {ProductionOne, ProductionTwo} : ArriveProduction(f)
    \/ \E r \in inflight.pending : HandleProduction(r)
    \/ \E d \in 0..MaxDays : GetProductionDaily(d)

SpecConcurrent == Init /\ [][NextConcurrent]_vars

-----------------------------------------------------------------------------
(* Properties. *)

HistoryOps == {"production", "turnaround", "bypass", "usage"}
IngestOps ==
    HistoryOps \cup {"product-usage", "product-wastage", "detailed-wastage",
                     "stock-doses"}

\* The step is the handling of a request.
Handled == nreq' # nreq

NoDuplicateKey(coll, key) ==
    \A i, j \in 1..Len(coll) : coll[i][key] = coll[j][key] => i = j

\* C1: no history collection, in memory or persisted, holds two records with
\* the same natural key (date for production, turnaround and usage, location
\* for bypass), after any sequence of ingests, failed ingests and clears.
C1_NaturalKeysUnique ==
    /\ NoDuplicateKey(productionData, "date")
    /\ NoDuplicateKey(turnaroundData, "date")
    /\ NoDuplicateKey(bypassData, "location")
    /\ NoDuplicateKey(usageData, "date")
    /\ NoDuplicateKey(disk.production.doc, "date")
    /\ NoDuplicateKey(disk.turnaround.doc, "date")
    /\ NoDuplicateKey(disk.bypass.doc, "location")
    /\ NoDuplicateKey(disk.usage.doc, "date")

\* A key that already had a record was ingested again, after some ingest
\* failed, into a collection holding several keys.
C1_Witness ==
    /\ last.op = "production"
    /\ last.status = 200
    /\ last.results.updated > 0
    /\ Len(productionData) >= 2
    /\ uploads # {}

IdsKept(old, new, key) ==
    \A i \in 1..Len(old) :
        \E j \in 1..Len(new) :
            new[j][key] = old[i][key] /\ new[j].id = old[i].id

\* C2: a request other than the bulk clear leaves every natural key that had
\* a record with a record of the same id, so the id of a key never changes
\* across re-ingests.
C2_IdStable ==
    [][(Handled /\ last'.op # "clear") =>
          /\ IdsKept(productionData, productionData', "date")
          /\ IdsKept(turnaroundData, turnaroundData', "date")
          /\ IdsKept(bypassData, bypassData', "location")
          /\ IdsKept(usageData, usageData', "date")]_vars

\* A re-ingest at a later time replaced the body of the first record made.
C2_Witness ==
    /\ last.op = "production"
    /\ last.status = 200
    /\ last.results.updated > 0
    /\ last.at > 0
    /\ \E i \in 1..Len(productionData) :
          productionData[i].id = 0 /\ productionData[i].uploaded_at = last.at

DatedRows(f) == Cardinality({i \in 1..Len(f.rows) : Truthy(f.rows[i].key)})

SameButUploadedAt(a, b) ==
    /\ Len(a) = Len(b)
    /\ \A i \in 1..Len(a) :
          [a[i] EXCEPT !.uploaded_at = 0] = [b[i] EXCEPT !.uploaded_at = 0]

C4_TotalIsHourlySum ==
    /\ \A i \in 1..Len(productionData) :
          productionData[i].total_doses = SumFn(productionData[i].hourly)
    /\ \A i \in 1..Len(bypassData) :
          bypassData[i].total_bypasses = SumFn(bypassData[i].hourly)

Rejected(op, sentinel) ==
    /\ last'.op = op
    /\ last'.file.readable
    /\ ~(last'.file.hasHeader /\ last'.file.h0 = sentinel)

\* C5: a production sheet whose header cell 0 is not "EntryDate", and a
\* bypass sheet whose header cell 0 is not "Location" (a sheet with no header
\* row included), is answered with status 400 and changes no collection, no
\* persisted document and no identifier.
C5_SchemaRejection ==
    [][(Handled /\ (Rejected("production", "EntryDate")
                    \/ Rejected("bypass", "Location"))) =>
          /\ last'.status = 400
          /\ history' = history
          /\ snapshots' = snapshots
          /\ disk' = disk
          /\ nextId' = nextId]_vars

\* A sheet with the wrong sentinel and data rows was rejected while the
\* collection held records.
C5_Witness ==
    /\ last.op = "production"
    /\ last.status = 400
    /\ last.file.hasHeader
    /\ Len(last.file.rows) > 0
    /\ Len(productionData) > 0

\* C6: a windowed read includes the records dated today - days and excludes
\* those dated today - days - 1, at whatever time of day it is asked.
C6_WindowBoundary ==
    LET today == last.at \div TicksPerDay
        days == last.file.days
        body == {last.results[i] : i \in 1..Len(last.results)}
        Bounded(coll) ==
            \A i \in 1..Len(coll) :
                /\ coll[i].date = today - days => coll[i] \in body
                /\ coll[i].date = today - days - 1 => coll[i] \notin body
    IN /\ last.op = "production/daily" => Bounded(productionData)
       /\ last.op = "turnaround/daily" => Bounded(turnaroundData)
       /\ last.op = "usage/daily" => Bounded(usageData)

C8_ClearFrame ==
    [][(Handled /\ last'.op = "clear") =>
          /\ productionData' = <<>>
          /\ turnaroundData' = <<>>
          /\ bypassData' = <<>>
          /\ usageData' = <<>>
          /\ \A k \in HistoryOps : disk'[k] = [exists |-> TRUE, doc |-> <<>>]
          /\ snapshots' = snapshots
          /\ \A k \in {"productUsage", "productWastage", "detailedWastage",
                       "stockDoses"} : disk'[k] = disk[k]
          /\ \A d \in 0..MaxDays :
                ProductionDaily(productionData', now', d) = <<>>
          /\ ProductUsageSummary(productUsage')
                = ProductUsageSummary(productUsage)]_vars

\* The clear came after history records and a product-usage document existed.
C8_Witness ==
    /\ last.op = "clear"
    /\ nextId > 0
    /\ productUsage.has
    /\ productUsage.summary.total_products > 0

\* C9: after an ingest request has completed, in success or in error, its
\* uploaded temporary file is gone.
C9_TempFileDeleted ==
    last.op \in IngestOps => last.tmp \notin uploads

RowsOf(f, k) ==
    {i \in 1..Len(f.rows) : Truthy(f.rows[i].key) /\ f.rows[i].key = k}

\* C10: the rows of one production file that share a date, and the rows of
\* one bypass file that share a location, end as one record whose total and
\* hourly values are the sums over those rows.
C10_RowsFolded ==
    LET f == last.file
        hm == HourMap(f.cols)
        Folded(r, S, total) ==
            S # {} =>
              /\ total = SumFn([k \in S |-> RowTotal(hm, f.rows[k])])
              /\ \A h \in DOMAIN r.hourly :
                    r.hourly[h] =
                        SumFn([k \in S |-> RowHourly(hm, f.rows[k])[h]])
    IN /\ (last.op = "production" /\ last.status = 200) =>
             \A i \in 1..Len(productionData) :
                Folded(productionData[i],
                       RowsOf(f, Serial(productionData[i].date)),
                       productionData[i].total_doses)
       /\ (last.op = "bypass" /\ last.status = 200) =>
             \A i \in 1..Len(bypassData) :
                Folded(bypassData[i], RowsOf(f, bypassData[i].location),
                       bypassData[i].total_bypasses)

KeysOf(coll, key) == {coll[i][key] : i \in 1..Len(coll)}

\* The natural keys an hourly sheet carries: the dates of a production sheet,
\* the locations of a bypass sheet.
FileDates(f) ==
    {excelDateToISO(f.rows[i].key) :
        i \in {j \in 1..Len(f.rows) : Truthy(f.rows[j].key)}}
FileLocations(f) ==
    {f.rows[i].key : i \in {j \in 1..Len(f.rows) : Truthy(f.rows[j].key)}}

CountsByKey(keys, old, new, results) ==
    /\ results.added = Cardinality(keys \ old)
    /\ results.updated = Cardinality(keys \cap old)
    /\ Cardinality(new) = Cardinality(old) + results.added

\* C11: a successful production or bypass ingest reports added = the number
\* of distinct keys of the file that had no record and updated = the number
\* of distinct keys of the file that had one, and the collection grows by
\* added.
C11_CountsDistinctKeys ==
    [][(Handled /\ last'.status = 200) =>
          /\ last'.op = "production" =>
                CountsByKey(FileDates(last'.file),
                            KeysOf(productionData, "date"),
                            KeysOf(productionData', "date"), last'.results)
          /\ last'.op = "bypass" =>
                CountsByKey(FileLocations(last'.file),
                            KeysOf(bypassData, "location"),
                            KeysOf(bypassData', "location"),
                            last'.results)]_vars

\* A record without its identifier and its upload time.
Body(r) == [r EXCEPT !.id = 0, !.uploaded_at = 0]

\* Every record the file alone produces is stored, body for body.
StoresFresh(fresh, new, key) ==
    \A i \in 1..Len(fresh) :
        \E j \in 1..Len(new) :
            new[j][key] = fresh[i][key] /\ Body(new[j]) = Body(fresh[i])

\* C12: after a successful history ingest, the record stored for each key of
\* the file has the body that the same file gives when ingested into an empty
\* collection: nothing of the record the key had before remains in it.
C12_BodyFromFileOnly ==
    [][(Handled /\ last'.status = 200) =>
          /\ last'.op = "production" =>
                StoresFresh(ProductionHandler(last'.file, <<>>, 0, now).data,
                            productionData', "date")
          /\ last'.op = "turnaround" =>
                StoresFresh(TurnaroundHandler(last'.file, <<>>, 0, now).data,
                            turnaroundData', "date")
          /\ last'.op = "bypass" =>
                StoresFresh(BypassHandler(last'.file, <<>>, 0, now).data,
                            bypassData', "location")
          /\ last'.op = "usage" =>
                StoresFresh(UsageHandler(last'.file, <<>>, 0, now).data,
                            usageData', "date")]_vars

\* A turnaround upload replaced the record of its day, and a workstation of
\* the sample uploads that the file does not name is not in the new record.
C12_Witness ==
    /\ last.op = "turnaround"
    /\ last.status = 200
    /\ last.results.updated = 1
    /\ \E i \in 1..Len(turnaroundData) :
          /\ turnaroundData[i].date = last.at \div TicksPerDay
          /\ Str(1) \notin DOMAIN turnaroundData[i].by_workstation
          /\ Str(2) \in DOMAIN turnaroundData[i].by_workstation

\* C13: no request but the bulk clear removes a natural key from a history
\* collection: after an ingest, successful or failed, and after a read, every
\* key held before is still held.
C13_KeysOnlyGrow ==
    [][(Handled /\ last'.op # "clear") =>
          /\ KeysOf(productionData, "date") \subseteq
                KeysOf(productionData', "date")
          /\ KeysOf(turnaroundData, "date") \subseteq
                KeysOf(turnaroundData', "date")
          /\ KeysOf(bypassData, "location") \subseteq
                KeysOf(bypassData', "location")
          /\ KeysOf(usageData, "date") \subseteq KeysOf(usageData', "date")]_vars

\* A read was answered after an ingest had failed, with two dates stored.
C13_Witness ==
    /\ last.op = "production/daily"
    /\ uploads # {}
    /\ Cardinality(KeysOf(productionData, "date")) = 2

DateDescending(coll) ==
    \A i, j \in 1..Len(coll) : i < j => coll[i].date > coll[j].date

FirstRow(f, k) == SetMin({i \in 1..Len(f.rows) : f.rows[i].key = k})

\* The records there were keep their places and the new ones follow them in
\* the order of their first rows in the file.
InsertionOrder(old, new, f) ==
    /\ Len(old) <= Len(new)
    /\ \A i \in 1..Len(old) : new[i].location = old[i].location
    /\ \A i, j \in (Len(old) + 1)..Len(new) :
          i < j => FirstRow(f, new[i].location) < FirstRow(f, new[j].location)

\* C14: after a successful production, turnaround or usage ingest the
\* collection is in descending order of date; a successful bypass ingest
\* moves no record and appends the new locations in file order.
C14_CollectionOrder ==
    [][(Handled /\ last'.status = 200) =>
          /\ last'.op = "production" => DateDescending(productionData')
          /\ last'.op = "turnaround" => DateDescending(turnaroundData')
          /\ last'.op = "usage" => DateDescending(usageData')
          /\ last'.op = "bypass" =>
                InsertionOrder(bypassData, bypassData', last'.file)]_vars

\* A production ingest added a date later than the one stored: the record made
\* last stands first; the bypass collection holds two locations.
C14_Witness ==
    /\ last.op = "production"
    /\ last.status = 200
    /\ Len(productionData) >= 2
    /\ productionData[1].id > productionData[2].id
    /\ Len(bypassData) >= 2

\* The turnaround records the window of the last read request kept.
LastFiltered == WindowFilter(turnaroundData, last.at, last.file.days)

\* C15: the counts of the entries of a by-priority answer, and of a
\* by-workstation answer, add up to the total_doses of the turnaround records
\* that pass the window filter of the request.
C15_RollupSums ==
    LET doses == SumFn([i \in 1..Len(LastFiltered) |->
                           LastFiltered[i].total_doses])
    IN /\ last.op = "turnaround/by-priority" =>
             SumFn([i \in 1..Len(last.results) |-> last.results[i].count])
                = doses
       /\ last.op = "turnaround/by-workstation" =>
             SumSet([e \in last.results |-> e.count], last.results) = doses

\* A by-priority answer with two priorities, over a window that keeps one of
\* the two stored days.
C15_Witness ==
    /\ last.op = "turnaround/by-priority"
    /\ Len(last.results) >= 2
    /\ Len(turnaroundData) = 2
    /\ Len(LastFiltered) = 1

\* What the rows of a turnaround sheet add up to.
TurnaroundBucket(f) ==
    TurnaroundRows([has |-> FALSE, b |-> EmptyBucket, threw |-> FALSE], f, 1).b

HoldsBucket(r, b) ==
    /\ r.total_doses = b.count
    /\ r.avg_turnaround = AvgOf(b)
    /\ DOMAIN r.by_priority = DOMAIN b.by_priority
    /\ \A k \in DOMAIN b.by_priority : r.by_priority[k] = b.by_priority[k]
    /\ DOMAIN r.by_workstation = DOMAIN b.by_workstation
    /\ \A k \in DOMAIN b.by_workstation :
          r.by_workstation[k] = b.by_workstation[k]
    /\ DOMAIN r.by_drug = DOMAIN b.by_drug
    /\ \A k \in DOMAIN b.by_drug : r.by_drug[k] = b.by_drug[k]

\* Exactly one record of the day, and it holds the bucket b.
OneRecordOf(coll, day, b) ==
    /\ Cardinality({i \in 1..Len(coll) : coll[i].date = day}) = 1
    /\ \A i \in 1..Len(coll) : coll[i].date = day => HoldsBucket(coll[i], b)

\* C16: a successful turnaround ingest has added + updated <= 1, and two
\* successful turnaround uploads on the same day leave exactly one record of
\* that day, holding the aggregates of the second upload only.
C16_SecondUploadOnly ==
    [][(/\ Handled
        /\ last.op = "turnaround" /\ last.status = 200
        /\ last'.op = "turnaround" /\ last'.status = 200
        /\ last.at \div TicksPerDay = now \div TicksPerDay) =>
          /\ last'.results.added + last'.results.updated <= 1
          /\ OneRecordOf(turnaroundData', now \div TicksPerDay,
                         TurnaroundBucket(last'.file))]_vars

\* A row with a DoseID whose DoseStatus is the text 'Sorted'.
Contributes(f, row) ==
    Truthy(Col(f, row, "DoseID")) /\ Col(f, row, "DoseStatus") = Str(1)

ContributingOnly(f) ==
    [f EXCEPT !.rows = SelectSeq(f.rows, LAMBDA row : Contributes(f, row))]

UsageKeyed(f) ==
    {i \in 1..Len(f.rows) :
        /\ Truthy(Col(f, f.rows[i], "Product Name"))
        /\ Truthy(Col(f, f.rows[i], "Dose Preparation Time"))}

\* C18: a row whose key field is missing adds to no counter of the upload
\* result: a successful usage ingest reports total_records = the number of
\* rows with a product name and a preparation time, and total_waste_ml = the
\* unused volume of those rows.
C18_KeylessRowsSkipped ==
    (last.op = "usage" /\ last.status = 200) =>
       /\ last.results.total_records = Cardinality(UsageKeyed(last.file))
       /\ last.results.total_waste_ml =
             SumFn([i \in UsageKeyed(last.file) |->
                       ParseNum(Col(last.file, last.file.rows[i],
                                    "Product Unused Volume"))])

Abs(n) == IF n < 0 THEN -n ELSE n

\* waste_percent is kept in tenths: p is the tenth nearest to
\* waste * 100 / total.
NearestTenth(p, waste, total) == 2 * Abs(1000 * waste - p * total) <= total

\* C19 (as amended): every stored usage record, over non-negative integer
\* volumes, has used_volume + waste_volume = total_volume, and waste_percent
\* is waste_volume * 100 / total_volume rounded to one decimal, or 0 when
\* total_volume is 0.
C19_UsageVolumes ==
    \A i \in 1..Len(usageData) :
        LET r == usageData[i]
        IN /\ r.used_volume + r.waste_volume = r.total_volume
           /\ r.total_volume > 0 =>
                 NearestTenth(r.waste_percent, r.waste_volume, r.total_volume)
           /\ r.total_volume = 0 => r.waste_percent = 0

\* One date holds total 10, used 7, waste 3 and 30.0 percent; another holds
\* total 3 and waste 2, whose percentage is not a whole number of tenths.
C19_Witness ==
    /\ \E i \in 1..Len(usageData) :
          /\ usageData[i].total_volume = 10
          /\ usageData[i].used_volume = 7
          /\ usageData[i].waste_volume = 3
          /\ usageData[i].waste_percent = 300
    /\ \E i \in 1..Len(usageData) :
          /\ usageData[i].total_volume = 3
          /\ usageData[i].waste_volume = 2
          /\ usageData[i].waste_percent = 667

\* C19 (as stated): used_volume + waste_volume = total_volume, and
\* waste_percent is exactly waste_volume * 100 / total_volume, or 0 when
\* total_volume is 0.
C19_ExactPercent ==
    \A i \in 1..Len(usageData) :
        LET r == usageData[i]
        IN /\ r.used_volume + r.waste_volume = r.total_volume
           /\ r.total_volume # 0 =>
                 r.waste_percent * r.total_volume = 1000 * r.waste_volume
           /\ r.total_volume = 0 => r.waste_percent = 0

SnapshotOps ==
    {"product-usage", "product-wastage", "detailed-wastage", "stock-doses"}

\* The variable and persisted document each snapshot upload writes.
DocOf(op) ==
    CASE op = "product-usage" -> "productUsage"
      [] op = "product-wastage" -> "productWastage"
      [] op = "detailed-wastage" -> "detailedWastage"
      [] op = "stock-doses" -> "stockDoses"

Docs ==
    [productUsage |-> productUsage, productWastage |-> productWastage,
     detailedWastage |-> detailedWastage, stockDoses |-> stockDoses]

\* The document the sheet f alone gives.
FreshDoc(op, f, t) ==
    CASE op = "product-usage" ->
            ProductUsageHandler(f, NoProductUsage, 0, t).data
      [] op = "product-wastage" ->
            ProductWastageHandler(f, NoProductWastage, 0, t).data
      [] op = "detailed-wastage" ->
            DetailedWastageHandler(f, NoDetailedWastage, 0, t).data
      [] op = "stock-doses" -> StockDosesHandler(f, NoStockDoses, 0, t).data

\* C20: a successful snapshot ingest leaves, in memory and on disk, the
\* document that its sheet alone gives, whatever the document was before,
\* and leaves the other three snapshot documents and the four history
\* collections unchanged in memory and on disk.
C20_SnapshotReplaced ==
    [][(Handled /\ last'.op \in SnapshotOps /\ last'.status = 200) =>
          /\ Docs'[DocOf(last'.op)] = FreshDoc(last'.op, last'.file, now)
          /\ disk'[DocOf(last'.op)] =
                [exists |-> TRUE, doc |-> Docs'[DocOf(last'.op)]]
          /\ \A d \in DOMAIN Docs \ {DocOf(last'.op)} :
                Docs'[d] = Docs[d] /\ disk'[d] = disk[d]
          /\ history' = history
          /\ \A k \in HistoryOps : disk'[k] = disk[k]]_vars

\* The product-usage document holds the one product of the second sheet
\* while another snapshot document and a production record exist.
C20_Witness ==
    /\ last.op = "product-usage"
    /\ last.status = 200
    /\ DOMAIN productUsage.by_product = {Str(2)}
    /\ stockDoses.has
    /\ productionData # <<>>

SnapshotSummaryOps ==
    {"product-usage/summary", "product-wastage/summary",
     "detailed-wastage/summary", "stock-doses/summary"}

SnapshotListOps ==
    {"product-usage/by-location", "product-usage/top-products",
     "product-wastage/top-waste", "product-wastage/by-type",
     "detailed-wastage/daily", "detailed-wastage/by-product",
     "detailed-wastage/by-location", "stock-doses/all", "stock-doses/top"}

HistoryListOps ==
    {"production/daily", "turnaround/daily", "turnaround/by-priority",
     "turnaround/top-drugs", "bypass/summary", "usage/daily",
     "usage/top-waste", "usage/by-location"}

HistoryTotalOps ==
    {"summary", "production/hourly", "turnaround/by-workstation",
     "bypass/hourly", "usage/summary"}

ReadOps ==
    SnapshotSummaryOps \cup SnapshotListOps \cup HistoryListOps
        \cup HistoryTotalOps

\* The data a read endpoint answers from is absent (a snapshot document never
\* stored) or empty (a history collection never filled, or cleared).
NoData(op) ==
    CASE op \in {"product-usage/summary", "product-usage/by-location",
                 "product-usage/top-products"} -> ~productUsage.has
      [] op \in {"product-wastage/summary", "product-wastage/top-waste",
                 "product-wastage/by-type"} -> ~productWastage.has
      [] op \in {"detailed-wastage/summary", "detailed-wastage/daily",
                 "detailed-wastage/by-product",
                 "detailed-wastage/by-location"} -> ~detailedWastage.has
      [] op \in {"stock-doses/summary", "stock-doses/all",
                 "stock-doses/top"} -> ~stockDoses.has
      [] op \in {"production/daily", "production/hourly"} ->
            productionData = <<>>
      [] op \in {"turnaround/daily", "turnaround/by-priority",
                 "turnaround/by-workstation", "turnaround/top-drugs"} ->
            turnaroundData = <<>>
      [] op \in {"bypass/summary", "bypass/hourly"} -> bypassData = <<>>
      [] op \in {"usage/daily", "usage/top-waste", "usage/by-location",
                 "usage/summary"} -> usageData = <<>>
      [] op = "summary" ->
            productionData = <<>> /\ turnaroundData = <<>> /\ bypassData = <<>>

\* The answer over no data: an all-zero summary, an empty list, or totals
\* that are all zero (24 zeroed hours for the hourly patterns).
IsDefault(op, body) ==
    CASE op \in SnapshotSummaryOps \cup {"usage/summary"} ->
            "undefined" \notin DOMAIN body /\ \A k \in DOMAIN body : body[k] = 0
      [] op \in SnapshotListOps \cup HistoryListOps -> body = <<>>
      [] op = "turnaround/by-workstation" -> body = {}
      [] op = "production/hourly" ->
            /\ Len(body) = 24
            /\ \A i \in 1..24 :
                  body[i].total_doses = 0 /\ body[i].avg_doses = 0
      [] op = "bypass/hourly" ->
            Len(body) = 24 /\ \A i \in 1..24 : body[i].bypasses = 0
      [] op = "summary" ->
            /\ \A k \in DOMAIN body \ {"data_range"} : body[k] = 0
            /\ body.data_range = <<>>

Occurs(list, x) == Cardinality({i \in 1..Len(list) : list[i] = x})

\* Two lists hold the same elements the same number of times.
IsPermutation(a, b) ==
    /\ Len(a) = Len(b)
    /\ \A i \in 1..Len(a) : Occurs(a, a[i]) = Occurs(b, a[i])

NonIncreasing(list, k) ==
    \A i \in 1..(Len(list) - 1) : list[i][k] >= list[i + 1][k]

\* The rows of a stock-doses sheet that hold a dose, as [original, total].
DoseRows(f) ==
    LET held == SelectSeq(f.rows, LAMBDA row : Truthy(row.dose))
    IN [i \in 1..Len(held) |->
           [original |-> held[i].dose, total |-> ParseNum(held[i].total)]]

\* C22: after a successful stock-doses ingest, all is a permutation of
\* stocks followed by dilutions and is ordered by total non-increasing;
\* the rows holding a dose are, one for one, the entries of stocks and
\* dilutions together, the dilutions being exactly the rows whose dose
\* starts with DILUTION:; and total_stock_types + total_dilution_types is
\* the length of all.
C22_StockDosesLists ==
    [][(Handled /\ last'.op = "stock-doses" /\ last'.status = 200) =>
          LET doc == stockDoses'
              both == doc.stocks \o doc.dilutions
          IN /\ IsPermutation(doc.all, both)
             /\ NonIncreasing(doc.all, "total")
             /\ IsPermutation(
                    [i \in 1..Len(both) |->
                        [original |-> both[i].original,
                         total |-> both[i].total]],
                    DoseRows(last'.file))
             /\ \A i \in 1..Len(doc.dilutions) :
                    IsDilution(doc.dilutions[i].original)
             /\ \A i \in 1..Len(doc.stocks) :
                    ~IsDilution(doc.stocks[i].original)
             /\ doc.summary.total_stock_types
                    + doc.summary.total_dilution_types = Len(doc.all)]_vars

\* A sheet with a row without a dose, a dilution and equal totals was
\* stored: five entries, the largest total first.
C22_Witness ==
    /\ last.op = "stock-doses"
    /\ last.status = 200
    /\ last.file = StockDosesMixed
    /\ Len(stockDoses.all) = 5
    /\ Len(stockDoses.dilutions) = 2
    /\ stockDoses.all[1].total = 5

Bodies(coll) == [i \in 1..Len(coll) |-> Body(coll[i])]

\* The production collection and its persisted document after production
\* uploads of the given files are handled one after another from st.
RECURSIVE SerialProduction(_, _)
SerialProduction(st, files) ==
    IF files = <<>> THEN st
    ELSE LET out == ProductionHandler(Head(files), st.data, st.nid, 0)
         IN SerialProduction(
                [data |-> out.data, nid |-> out.nid,
                 doc |-> SaveData(out.saved, out.data, st.doc)],
                Tail(files))

\* C23: once every production upload received so far has been handled,
\* the in-memory collection and the persisted document are those that the
\* uploads give when handled one at a time in some order (identifiers and
\* upload times aside): the effect of none of them is lost.
C23_NoLostUpdate ==
    (inflight.pending = {} /\ inflight.log # <<>>) =>
        \E p \in Permutations(1..Len(inflight.log)) :
            LET st == SerialProduction(
                        [data |-> <<>>, nid |-> 0, doc |-> Absent],
                        [i \in 1..Len(inflight.log) |->
                            inflight.log[p[i]].file])
            IN /\ Bodies(productionData) = Bodies(st.data)
               /\ disk.production.exists = st.doc.exists
               /\ Bodies(disk.production.doc) = Bodies(st.doc.doc)

\* C24: with grouping=weekly the answer has one group for each
\* Monday-to-Sunday week that holds a filtered record, the total_doses of a
\* group is the sum over the filtered records of its week (so records share
\* a group exactly when they share a week, and the totals of the groups add
\* up to the total of the filtered records), and the groups come in
\* ascending order of their earliest date.
C24_WeeklyGroups ==
    (last.op = "production/daily" /\ last.file.grouping = "weekly") =>
        LET filtered == WindowFilter(productionData, last.at, last.file.days)
            weeks == {MondayOf(filtered[i].date) : i \in 1..Len(filtered)}
            InWeek(w) == SelectSeq(filtered, LAMBDA d : MondayOf(d.date) = w)
            groups == last.results
        IN /\ Len(groups) = Cardinality(weeks)
           /\ \A i \in 1..Len(groups) :
                 /\ MondayOf(groups[i].sortKey) \in weeks
                 /\ groups[i].total_doses =
                        SumOver(InWeek(MondayOf(groups[i].sortKey)),
                                "total_doses")
                 /\ \A j \in 1..Len(filtered) :
                        MondayOf(filtered[j].date) = MondayOf(groups[i].sortKey)
                            => groups[i].sortKey <= filtered[j].date
           /\ SumOver(groups, "total_doses") = SumOver(filtered, "total_doses")
           /\ \A i \in 1..(Len(groups) - 1) :
                 groups[i].sortKey < groups[i + 1].sortKey

\* C25: every key of the hourly map of every stored production and bypass
\* record is an hour from 0 to 23, and the total_doses of the 24 entries of
\* the hourly production pattern add up to the total_doses of the records
\* inside the window.
C25_HourKeys ==
    /\ \A i \in 1..Len(productionData) :
          DOMAIN productionData[i].hourly \subseteq 0..23
    /\ \A i \in 1..Len(bypassData) :
          DOMAIN bypassData[i].hourly \subseteq 0..23
    /\ last.op = "production/hourly" =>
          SumOver(last.results, "total_doses") =
              SumOver(WindowFilter(productionData, last.at, last.file.days),
                      "total_doses")

TopOps ==
    {"turnaround/top-drugs", "usage/top-waste", "product-usage/top-products",
     "stock-doses/all", "stock-doses/top"}

\* The field a top query sorts by.
MetricOf(op) ==
    CASE op = "turnaround/top-drugs" -> "count"
      [] op = "usage/top-waste" -> "waste_ml"
      [] op = "product-usage/top-products" -> "product_count"
      [] OTHER -> "total"

\* Every entry the query of the last request had to choose from.
Candidates ==
    CASE last.op = "turnaround/top-drugs" ->
            TurnaroundDrugs(turnaroundData, last.at, last.file.days)
      [] last.op = "usage/top-waste" ->
            UsageWaste(usageData, last.at, last.file.days)
      [] last.op = "product-usage/top-products" ->
            IF productUsage.has THEN ProductUsageProducts(productUsage)
            ELSE <<>>
      [] last.op = "stock-doses/all" ->
            IF stockDoses.has THEN StockDosesOf(stockDoses, last.file.type)
            ELSE <<>>
      [] last.op = "stock-doses/top" ->
            IF stockDoses.has THEN stockDoses.all ELSE <<>>

\* C26: the answer of a top query has at most limit entries, is ordered by
\* its sort metric non-increasing, and leaves out no entry with a strictly
\* larger metric than one it returns.
C26_TopLimit ==
    last.op \in TopOps =>
        LET got == last.results
            metric == MetricOf(last.op)
        IN /\ Len(got) <= last.file.limit
           /\ NonIncreasing(got, metric)
           /\ \A i \in 1..Len(Candidates) :
                 Occurs(got, Candidates[i]) < Occurs(Candidates, Candidates[i])
                    => \A j \in 1..Len(got) :
                          Candidates[i][metric] <= got[j][metric]

\* C27: between requests each in-memory collection equals the content of
\* its persisted document, so a restart reloads the state the queries were
\* serving.
C27_MemoryIsDisk ==
    /\ productionData = loadData(disk.production, <<>>)
    /\ turnaroundData = loadData(disk.turnaround, <<>>)
    /\ bypassData = loadData(disk.bypass, <<>>)
    /\ usageData = loadData(disk.usage, <<>>)
    /\ productUsage = loadData(disk.productUsage, NoProductUsage)
    /\ productWastage = loadData(disk.productWastage, NoProductWastage)
    /\ detailedWastage = loadData(disk.detailedWastage, NoDetailedWastage)
    /\ stockDoses = loadData(disk.stockDoses, NoStockDoses)

\* The counts of the entries of a breakdown map, added up.
CountSum(m) == SumFn([k \in DOMAIN m |-> m[k].count])

\* Every contributing row of the sheet names a drug.
AllNamed(f) ==
    \A i \in 1..Len(f.rows) :
       Contributes(f, f.rows[i]) =>
          DrugName(Col(f, f.rows[i], "DoseDescription")) # 0

\* C28: in every stored turnaround record total_doses is the sum of the
\* by_priority counts and the sum of the by_workstation counts, and the
\* by_drug counts add up to at most total_doses, to exactly total_doses when
\* and only when every contributing row of the sheet names a drug; a
\* top-drugs answer that is not truncated adds up to at most the total_doses
\* of the records its window keeps.
C28_BreakdownSums ==
    /\ \A i \in 1..Len(turnaroundData) :
          LET r == turnaroundData[i]
          IN /\ r.total_doses = CountSum(r.by_priority)
             /\ r.total_doses = CountSum(r.by_workstation)
             /\ CountSum(r.by_drug) <= r.total_doses
    /\ (last.op = "turnaround" /\ last.status = 200
           /\ last.results.added + last.results.updated = 1) =>
          \A i \in 1..Len(turnaroundData) :
             turnaroundData[i].date = last.at \div TicksPerDay =>
                ((CountSum(turnaroundData[i].by_drug)
                     = turnaroundData[i].total_doses)
                  <=> AllNamed(last.file))
    /\ (last.op = "turnaround/top-drugs"
           /\ Len(last.results) < last.file.limit) =>
          SumFn([i \in 1..Len(last.results) |-> last.results[i].count])
             <= SumOver(LastFiltered, "total_doses")

=============================================================================
